---- MODULE Spec2Model ----
(***************************************************************************)
(* Trade Lifecycle Manager of pro-trading-terminal                         *)
(* (src/backend/trade_manager.py).                                         *)
(*                                                                         *)
(* Units.  Prices are integers counting 0.00001 ("points"), so that the    *)
(* code's round(x, 4) is a real rounding to a multiple of 10 points.       *)
(* Percentages count 0.01 %, confidences 0.1, stored RSI 0.01, stored bars  *)
(* and minutes 0.1; the RSI of a signal counts 0.001 and its bars 0.01, so *)
(* that round(x, 2) and round(x, 1) round as well.  Instants are whole     *)
(* minutes since Monday 2024-03-04 00:00 UTC.  Arithmetic is exact.        *)
(***************************************************************************)
EXTENDS Integers, Sequences, FiniteSets, TLC

VARIABLES
    active,   \* TradeManager._active: instrument -> trade dict, None = no key
    akeys,    \* insertion order of the keys of _active
    history,  \* TradeManager._history: instrument -> list of exit events
    hkeys,    \* insertion order of the keys of _history
    now,      \* the wall clock read by _now_utc()
    last,     \* the latest call of the public API: operation, arguments, result
    ws_clients,       \* main.py: the WebSocket sessions and their position
    last_signal_key,  \* main.py _last_signal_key: instrument -> bar time of
                      \* its latest signal, Missing = no key
    signal_history,   \* main.py signal_history: the payloads, newest first
    opened,           \* trades open_trade has returned, per instrument
    pool,             \* the threadpool workers inside a request handler
    bar_state         \* main.py _bar_state: (instrument, interval) -> the
                      \* bar aggregated from the ticks, None = no key

\* the variables of trade_manager.py and those of main.py
tmVars == <<active, akeys, history, hkeys, now, last>>
mainVars ==
    <<ws_clients, last_signal_key, signal_history, opened, pool, bar_state>>

vars == <<active, akeys, history, hkeys, now, last, ws_clients,
          last_signal_key, signal_history, opened, pool, bar_state>>

----------------------------------------------------------------------------
(* Bounds of the model *)

\* last day (0 = Monday 2024-03-04) on which the sampled clock has instants
MaxDay == 7
\* opens allowed in one behaviour of Spec (all instruments together)
MaxTrades == 2
\* closes driven through one instrument in SpecHist
MaxCloses == 22
\* last minute of the clock in SpecLive, which starts at minute 0
MaxMinute == 6
\* bars after the flat opening of a bar sequence in SpecStrat and SpecInd
MaxTail == 3
\* the last instant of the clock between the calls of the indicators
MaxIndNow == 2
\* the longest pair of series handed to crossover and crossunder
MaxCross == 3
MaxSignals == 3
MaxBarMinutes == 5

----------------------------------------------------------------------------
(* Python values *)

\* Python's None
None == [none |-> TRUE]

\* None where a reason string is expected
NoReason == "<None>"

\* a dict key that is not present (signal.get(key, default))
Missing == -1

Abs(x) == IF x < 0 THEN -x ELSE x

Min(a, b) == IF a <= b THEN a ELSE b

Max(a, b) == IF a >= b THEN a ELSE b

\* n / d rounded to the nearest integer, ties to even (Python's round), d > 0
RoundDivPos(n, d) ==
    LET q == n \div d
        r == n % d
    IN  IF 2 * r < d THEN q
        ELSE IF 2 * r > d THEN q + 1
        ELSE IF q % 2 = 0 THEN q ELSE q + 1

RoundDiv(n, d) == IF n >= 0 THEN RoundDivPos(n, d) ELSE -RoundDivPos(-n, d)

\* round(x, 4) of a price in points: the nearest multiple of 10 points
Round4(x) == 10 * RoundDiv(x, 10)

----------------------------------------------------------------------------
(* Exact arithmetic for the float series of pandas.  A natural number is    *)
(* the sequence of its digits to the base 10000, lowest first, <<>> for 0; *)
(* a number of a series is a fraction of such numbers with a sign, or NaN.  *)

RECURSIVE MagOf(_)
MagOf(n) == IF n = 0 THEN <<>> ELSE <<n % 10000>> \o MagOf(n \div 10000)

RECURSIVE MagTrim(_)
MagTrim(a) ==
    IF a = <<>> THEN <<>>
    ELSE IF a[Len(a)] = 0 THEN MagTrim(SubSeq(a, 1, Len(a) - 1))
    ELSE a

RECURSIVE MagAddC(_, _, _)
MagAddC(a, b, carry) ==
    IF a = <<>> /\ b = <<>>
    THEN (IF carry = 0 THEN <<>> ELSE <<carry>>)
    ELSE LET x == (IF a = <<>> THEN 0 ELSE Head(a))
                  + (IF b = <<>> THEN 0 ELSE Head(b)) + carry
         IN  <<x % 10000>> \o MagAddC(IF a = <<>> THEN <<>> ELSE Tail(a),
                                      IF b = <<>> THEN <<>> ELSE Tail(b),
                                      x \div 10000)

MagAdd(a, b) == MagAddC(a, b, 0)

\* -1, 0 or 1 as a < b, a = b or a > b
RECURSIVE MagCmp(_, _)
MagCmp(a, b) ==
    IF Len(a) # Len(b) THEN (IF Len(a) < Len(b) THEN -1 ELSE 1)
    ELSE IF a = <<>> THEN 0
    ELSE IF a[Len(a)] # b[Len(b)]
         THEN (IF a[Len(a)] < b[Len(b)] THEN -1 ELSE 1)
    ELSE MagCmp(SubSeq(a, 1, Len(a) - 1), SubSeq(b, 1, Len(b) - 1))

\* a - b for a >= b
RECURSIVE MagSubB(_, _, _)
MagSubB(a, b, borrow) ==
    IF a = <<>> THEN <<>>
    ELSE LET x == Head(a) - (IF b = <<>> THEN 0 ELSE Head(b)) - borrow
         IN  <<IF x < 0 THEN x + 10000 ELSE x>>
             \o MagSubB(Tail(a), IF b = <<>> THEN <<>> ELSE Tail(b),
                        IF x < 0 THEN 1 ELSE 0)

MagSub(a, b) == MagTrim(MagSubB(a, b, 0))

\* a * k for a digit k
RECURSIVE MagMulDigitC(_, _, _)
MagMulDigitC(a, k, carry) ==
    IF a = <<>> THEN (IF carry = 0 THEN <<>> ELSE <<carry>>)
    ELSE LET x == Head(a) * k + carry
         IN  <<x % 10000>> \o MagMulDigitC(Tail(a), k, x \div 10000)

MagMulDigit(a, k) == IF k = 0 THEN <<>> ELSE MagMulDigitC(a, k, 0)

RECURSIVE MagMul(_, _)
MagMul(a, b) ==
    IF a = <<>> \/ b = <<>> THEN <<>>
    ELSE LET rest == MagMul(a, Tail(b))
         IN  MagAdd(MagMulDigit(a, Head(b)),
                    IF rest = <<>> THEN <<>> ELSE <<0>> \o rest)

\* the fraction n / d of natural numbers with the sign sgn (-1, 0, 1)
Frac(sgn, n, d) ==
    IF n = <<>> \/ sgn = 0 THEN [sgn |-> 0, n |-> <<>>, d |-> <<1>>]
    ELSE [sgn |-> sgn, n |-> n, d |-> d]

\* the integer k as a number of a series
Num(k) == Frac(IF k < 0 THEN -1 ELSE IF k = 0 THEN 0 ELSE 1,
               MagOf(IF k < 0 THEN -k ELSE k), <<1>>)

\* numpy.nan
NaN == [nan |-> TRUE]

IsNaN(x) == "nan" \in DOMAIN x

Neg(x) == IF IsNaN(x) THEN NaN ELSE Frac(-x.sgn, x.n, x.d)

\* xs * xn / d + ys * yn / d, c comparing xn with yn
AddSigned(xs, ys, xn, yn, d, c) ==
    IF xs = ys THEN Frac(xs, MagAdd(xn, yn), d)
    ELSE IF c = 0 THEN Frac(0, <<>>, <<1>>)
    ELSE IF c > 0 THEN Frac(xs, MagSub(xn, yn), d)
    ELSE Frac(ys, MagSub(yn, xn), d)

AddAligned(xs, ys, xn, yn, d) == AddSigned(xs, ys, xn, yn, d, MagCmp(xn, yn))

\* x + y
Add(x, y) ==
    IF IsNaN(x) \/ IsNaN(y) THEN NaN
    ELSE IF x.sgn = 0 THEN y
    ELSE IF y.sgn = 0 THEN x
    ELSE IF x.d = y.d THEN AddAligned(x.sgn, y.sgn, x.n, y.n, x.d)
    ELSE AddAligned(x.sgn, y.sgn, MagMul(x.n, y.d), MagMul(y.n, x.d),
                    MagMul(x.d, y.d))

Sub(x, y) == Add(x, Neg(y))

\* x * y
Mul(x, y) ==
    IF IsNaN(x) \/ IsNaN(y) THEN NaN
    ELSE Frac(x.sgn * y.sgn, MagMul(x.n, y.n), MagMul(x.d, y.d))

\* x / y; a float division by 0.0 in numpy gives inf or NaN, which no
\* caller in the model lets happen (the divisor is tested or replaced)
Div(x, y) ==
    IF IsNaN(x) \/ IsNaN(y) \/ y.sgn = 0 THEN NaN
    ELSE Frac(x.sgn * y.sgn, MagMul(x.n, y.d), MagMul(x.d, y.n))

\* -1, 0 or 1 as x < y, x = y or x > y (neither is NaN)
Cmp(x, y) == Sub(x, y).sgn

\* the comparisons of floats: False when either side is NaN
Lt(x, y)  == ~IsNaN(x) /\ ~IsNaN(y) /\ Cmp(x, y) < 0
Leq(x, y) == ~IsNaN(x) /\ ~IsNaN(y) /\ Cmp(x, y) <= 0
Gt(x, y)  == ~IsNaN(x) /\ ~IsNaN(y) /\ Cmp(x, y) > 0
Geq(x, y) == ~IsNaN(x) /\ ~IsNaN(y) /\ Cmp(x, y) >= 0

\* the largest q in lo..hi with q * d <= n (n, d natural numbers, d > 0)
RECURSIVE FloorBetween(_, _, _, _)
FloorBetween(n, d, lo, hi) ==
    IF lo = hi THEN lo
    ELSE LET mid == lo + (hi - lo + 1) \div 2
         IN  IF MagCmp(MagMul(d, MagOf(mid)), n) <= 0
             THEN FloorBetween(n, d, mid, hi)
             ELSE FloorBetween(n, d, lo, mid - 1)

\* round(x * scale) for a number x >= 0 of a series whose result is known
\* to be at most top: the nearest integer, ties to even
HalfEven(q, c) ==
    IF c < 0 THEN q
    ELSE IF c > 0 THEN q + 1
    ELSE IF q % 2 = 0 THEN q ELSE q + 1

RoundFrom(n, d, q) ==
    HalfEven(q, MagCmp(MagMulDigit(MagSub(n, MagMul(d, MagOf(q))), 2), d))

RoundMag(n, d, top) == RoundFrom(n, d, FloorBetween(n, d, 0, top))

RoundScaled(x, scale, top) == RoundMag(MagMul(x.n, MagOf(scale)), x.d, top)

----------------------------------------------------------------------------
(* Module constants and helpers of trade_manager.py *)

\* an instrument name, kept as the part before its exchange suffix and the
\* suffix itself, so that str.endswith can be computed
Sym(stem, suffix) == [stem |-> stem, suffix |-> suffix]

RELIANCE_NS == Sym("RELIANCE", ".NS")
TCS_BO      == Sym("TCS", ".BO")
NSEI        == Sym("^NSEI", "")
NSEBANK     == Sym("^NSEBANK", "")
BSESN       == Sym("^BSESN", "")
AAPL        == Sym("AAPL", "")
BTC_USD     == Sym("BTC-USD", "")
VOD_L       == Sym("VOD", ".L")

Symbols == {RELIANCE_NS, TCS_BO, NSEI, NSEBANK, BSESN, AAPL, BTC_USD, VOD_L}

\* _INTERVAL_MINUTES.get(interval, 5)
IntervalMinutes(interval) ==
    CASE interval = "1m"  -> 1
      [] interval = "2m"  -> 2
      [] interval = "5m"  -> 5
      [] interval = "15m" -> 15
      [] interval = "30m" -> 30
      [] interval = "60m" -> 60
      [] interval = "1h"  -> 60
      [] interval = "1d"  -> 390
      [] interval = "1wk" -> 1950
      [] OTHER            -> 5

\* first instant of US daylight saving time in the modelled fortnight:
\* Sunday 2024-03-10 02:00 EST = 07:00 UTC
DstStart == 6 * 1440 + 7 * 60

\* datetime.astimezone(_IST): minutes since Monday 2024-03-04 00:00 local
AstimezoneIST(t) == t + 330

\* datetime.astimezone(_EST) (America/New_York, EST until DstStart, then EDT)
AstimezoneEST(t) == IF t < DstStart THEN t - 300 ELSE t - 240

\* datetime.weekday(): Monday = 0 ... Sunday = 6
Weekday(local) == (local \div 1440) % 7

\* datetime.replace(hour=h, minute=m, second=0, microsecond=0)
ReplaceHM(local, h, m) == (local \div 1440) * 1440 + h * 60 + m

\* _EOD: (timezone, hour, minute) per market
EOD(market) ==
    IF market = "NSE" THEN [tz |-> "IST", h |-> 15, m |-> 20]
                      ELSE [tz |-> "EST", h |-> 15, m |-> 55]

Astimezone(t, tz) == IF tz = "IST" THEN AstimezoneIST(t) ELSE AstimezoneEST(t)

\* _is_nse_symbol
IsNseSymbol(sym) ==
    \/ sym.suffix = ".NS"
    \/ sym.suffix = ".BO"
    \/ (sym.suffix = "" /\ sym.stem \in {"^NSEI", "^NSEBANK", "^BSESN"})

\* _elapsed_minutes at instant t
ElapsedMinutes(entry_time, t) == t - entry_time

\* datetime.isoformat()
IsoFormat(t) == [iso |-> t]

\* _compute_confidence without the cap of line 55
ComputeConfidenceUncapped(rsi, signal_type) ==
    LET dist == IF signal_type = "BUY" THEN Max(0, rsi - 50000)
                                       ELSE Max(0, 50000 - rsi)
    IN  RoundDiv(500000 + dist * 18, 1000)

\* _compute_confidence: rsi in 0.001, result in 0.1
\*   round(min(95.0, 50.0 + dist * 1.8), 1)
ComputeConfidence(rsi, signal_type) ==
    LET dist == IF signal_type = "BUY" THEN Max(0, rsi - 50000)
                                       ELSE Max(0, 50000 - rsi)
    IN  RoundDiv(Min(950000, 500000 + dist * 18), 1000)

\* _check_eod with Saturday taken for a trading day
CheckEodOnSaturday(symbol, t) ==
    LET e      == IF IsNseSymbol(symbol) THEN EOD("NSE") ELSE EOD("NYSE")
        local  == Astimezone(t, e.tz)
        cutoff == ReplaceHM(local, e.h, e.m)
    IN  IF Weekday(local) <= 5 /\ local >= cutoff THEN "EOD Exit" ELSE NoReason

\* TradeManager._check_eod at instant t
CheckEod(symbol, t) ==
    LET e      == IF IsNseSymbol(symbol) THEN EOD("NSE") ELSE EOD("NYSE")
        local  == Astimezone(t, e.tz)
        cutoff == ReplaceHM(local, e.h, e.m)
    IN  IF Weekday(local) < 5 /\ local >= cutoff THEN "EOD Exit" ELSE NoReason

----------------------------------------------------------------------------
(* TradeManager *)

\* a test that takes 0 for a value given
TruthyNonMissing(x) == x # Missing

\* Python truthiness of an optional number: absent, None and 0 are falsy
Truthy(x) == x # Missing /\ x # 0

\* dict.get(key, default)
Get(x, default) == IF x = Missing THEN default ELSE x

\* the trade dict built by open_trade (lines 83-107) at instant t
NewTrade(signal, symbol, strategy, interval, t) ==
    LET iv_min  == IntervalMinutes(interval)
        bars    == IF Truthy(signal.target_bars) THEN signal.target_bars
                   ELSE IF Truthy(signal.bars) THEN signal.bars
                   ELSE 500
        exp_min == bars * iv_min
    IN  [ symbol                |-> symbol,
          timeframe             |-> interval,
          strategy              |-> strategy,
          side                  |-> signal.type,
          entry_price           |-> Round4(signal.price),
          target_price          |-> Round4(signal.tp),
          stop_loss             |-> Round4(signal.sl),
          confidence            |-> ComputeConfidence(Get(signal.rsi, 50000),
                                                      signal.type),
          entry_time            |-> IsoFormat(t),
          entry_time_dt         |-> t,
          expected_time_minutes |-> RoundDiv(exp_min, 10),
          expected_bars         |-> RoundDiv(bars, 10),
          rsi                   |-> RoundDiv(Get(signal.rsi, 50000), 10),
          atr                   |-> Round4(Get(signal.atr, 0)),
          status                |-> "ACTIVE" ]

\* check_exits without the Time test of lines 141-145
ExitReasonNoTime(trade, price, symbol, t) ==
    LET side == trade.side
        tp   == trade.target_price
        sl   == trade.stop_loss
    IN  IF (side = "BUY" /\ price >= tp) \/ (side = "SELL" /\ price <= tp)
        THEN "Target Hit"
        ELSE IF (side = "BUY" /\ price <= sl) \/ (side = "SELL" /\ price >= sl)
        THEN "Stop Hit"
        ELSE CheckEod(symbol, t)

\* check_exits with the stop tested before the target
ExitReasonStopFirst(trade, price, symbol, t) ==
    LET side == trade.side
        tp   == trade.target_price
        sl   == trade.stop_loss
    IN  IF (side = "BUY" /\ price <= sl) \/ (side = "SELL" /\ price >= sl)
        THEN "Stop Hit"
        ELSE IF (side = "BUY" /\ price >= tp) \/ (side = "SELL" /\ price <= tp)
        THEN "Target Hit"
        ELSE IF 10 * ElapsedMinutes(trade.entry_time_dt, t)
                  >= trade.expected_time_minutes
        THEN "Time Exit"
        ELSE CheckEod(symbol, t)

\* check_exits with the end of day tested before the elapsed time
ExitReasonEodBeforeTime(trade, price, symbol, t) ==
    LET side == trade.side
        tp   == trade.target_price
        sl   == trade.stop_loss
    IN  IF (side = "BUY" /\ price >= tp) \/ (side = "SELL" /\ price <= tp)
        THEN "Target Hit"
        ELSE IF (side = "BUY" /\ price <= sl) \/ (side = "SELL" /\ price >= sl)
        THEN "Stop Hit"
        ELSE IF CheckEod(symbol, t) # NoReason
        THEN CheckEod(symbol, t)
        ELSE IF 10 * ElapsedMinutes(trade.entry_time_dt, t)
                  >= trade.expected_time_minutes
        THEN "Time Exit"
        ELSE NoReason

\* the exit reason check_exits computes (lines 130-149) for an Active trade,
\* a tick price and the instant t; NoReason when no condition matches
ExitReason(trade, price, symbol, t) ==
    LET side  == trade.side
        tp    == trade.target_price
        sl    == trade.stop_loss
        et    == trade.entry_time_dt
        exp_m == trade.expected_time_minutes
        rA    == IF (side = "BUY" /\ price >= tp) \/ (side = "SELL" /\ price <= tp)
                 THEN "Target Hit" ELSE NoReason
        rB    == IF rA # NoReason THEN rA
                 ELSE IF (side = "BUY" /\ price <= sl) \/ (side = "SELL" /\ price >= sl)
                 THEN "Stop Hit" ELSE NoReason
        rC    == IF rB # NoReason THEN rB
                 ELSE IF 10 * ElapsedMinutes(et, t) >= exp_m
                 THEN "Time Exit" ELSE NoReason
    IN  IF rC # NoReason THEN rC ELSE CheckEod(symbol, t)

\* _close_trade with the P&L of a SELL computed like that of a BUY
ExitEventBuyOnly(trade, symbol, exit_price, reason, t) ==
    LET entry   == trade.entry_price
        side    == trade.side
        elapsed == ElapsedMinutes(trade.entry_time_dt, t)
        pnl     == Round4(exit_price - entry)
        pnl_pct == IF entry # 0 THEN RoundDiv((pnl \div 10) * 10000, entry \div 10)
                                ELSE 0
    IN  [ type             |-> "exit",
          symbol           |-> symbol,
          side             |-> side,
          strategy         |-> trade.strategy,
          timeframe        |-> trade.timeframe,
          entry_price      |-> entry,
          exit_price       |-> Round4(exit_price),
          target_price     |-> trade.target_price,
          stop_loss        |-> trade.stop_loss,
          exit_reason      |-> reason,
          pnl              |-> pnl,
          pnl_pct          |-> pnl_pct,
          duration_minutes |-> 10 * elapsed,
          entry_time       |-> trade.entry_time,
          exit_time        |-> IsoFormat(t),
          confidence       |-> trade.confidence ]

\* the exit event _close_trade builds (lines 223-252) at instant t
ExitEvent(trade, symbol, exit_price, reason, t) ==
    LET entry   == trade.entry_price
        side    == trade.side
        elapsed == ElapsedMinutes(trade.entry_time_dt, t)
        pnl     == IF side = "BUY" THEN Round4(exit_price - entry)
                                   ELSE Round4(entry - exit_price)
        pnl_pct == IF entry # 0 THEN RoundDiv((pnl \div 10) * 10000, entry \div 10)
                                ELSE 0
    IN  [ type             |-> "exit",
          symbol           |-> symbol,
          side             |-> side,
          strategy         |-> trade.strategy,
          timeframe        |-> trade.timeframe,
          entry_price      |-> entry,
          exit_price       |-> Round4(exit_price),
          target_price     |-> trade.target_price,
          stop_loss        |-> trade.stop_loss,
          exit_reason      |-> reason,
          pnl              |-> pnl,
          pnl_pct          |-> pnl_pct,
          duration_minutes |-> 10 * elapsed,
          entry_time       |-> trade.entry_time,
          exit_time        |-> IsoFormat(t),
          confidence       |-> trade.confidence ]

\* _close_trade storing the event at the end of the list
StoreHistoryAppend(hist, event) ==
    LET h == Append(hist, event)
    IN  IF Len(h) > 20 THEN SubSeq(h, 1, Len(h) - 1) ELSE h

\* _close_trade trimming the list only beyond 21 events
StoreHistoryKeeps21(hist, event) ==
    LET h == <<event>> \o hist
    IN  IF Len(h) > 21 THEN SubSeq(h, 1, Len(h) - 1) ELSE h

\* _close_trade keeps the last 20 exit events per instrument
HistoryCap == 20

\* the history list after _close_trade stores an event (lines 254-259)
StoreHistory(hist, event) ==
    LET h == <<event>> \o hist
    IN  IF Len(h) > HistoryCap THEN SubSeq(h, 1, Len(h) - 1) ELSE h

\* a key sequence without the key k (dict.pop)
RECURSIVE WithoutKey(_, _)
WithoutKey(keys, k) ==
    IF keys = <<>> THEN <<>>
    ELSE IF Head(keys) = k THEN WithoutKey(Tail(keys), k)
    ELSE <<Head(keys)>> \o WithoutKey(Tail(keys), k)

\* a key sequence after dict[k] = v (a new key goes last)
WithKey(keys, k) ==
    IF \E i \in 1..Len(keys) : keys[i] = k THEN keys ELSE Append(keys, k)

\* list(reversed(xs))
RECURSIVE Reversed(_)
Reversed(xs) == IF xs = <<>> THEN <<>> ELSE Append(Reversed(Tail(xs)), Head(xs))

\* the record of a call for the variable last: req is the signal, strategy
\* and interval handed to open_trade, price the price handed to check_exits
\* or force_close
Call(op, symbol, req, price, ret) ==
    [op |-> op, symbol |-> symbol, req |-> req, price |-> price, ret |-> ret]

\* _close_trade that clears the dict of Active trades instead of popping
\* the one of the symbol
CloseTradeClearsAll(st, symbol, exit_price, reason, t) ==
    LET trade == st.active[symbol]
    IN  IF trade = None
        THEN [st EXCEPT !.ret = [empty |-> TRUE]]
        ELSE LET event == ExitEvent(trade, symbol, exit_price, reason, t)
             IN  [ active  |-> [s \in DOMAIN st.active |-> None],
                   akeys   |-> <<>>,
                   history |-> [st.history EXCEPT
                                  ![symbol] = StoreHistory(@, event)],
                   hkeys   |-> WithKey(st.hkeys, symbol),
                   ret     |-> event ]

\* _close_trade that pops the trade and returns the event without storing it
CloseTradePopOnly(st, symbol, exit_price, reason, t) ==
    LET trade == st.active[symbol]
    IN  IF trade = None
        THEN [st EXCEPT !.ret = [empty |-> TRUE]]
        ELSE [st EXCEPT !.active = [st.active EXCEPT ![symbol] = None],
                        !.akeys  = WithoutKey(st.akeys, symbol),
                        !.ret    = ExitEvent(trade, symbol, exit_price,
                                             reason, t)]

\* the state of the manager after _close_trade(symbol, exit_price, reason)
\* (lines 218-261); st is [active, akeys, history, hkeys, ret]
CloseTrade(st, symbol, exit_price, reason, t) ==
    LET trade == st.active[symbol]
    IN  IF trade = None
        THEN [st EXCEPT !.ret = [empty |-> TRUE]]
        ELSE LET event == ExitEvent(trade, symbol, exit_price, reason, t)
             IN  [ active  |-> [st.active EXCEPT ![symbol] = None],
                   akeys   |-> WithoutKey(st.akeys, symbol),
                   history |-> [st.history EXCEPT
                                  ![symbol] = StoreHistory(@, event)],
                   hkeys   |-> WithKey(st.hkeys, symbol),
                   ret     |-> event ]

\* the manager's state as a record, for CloseTrade
Manager == [active |-> active, akeys |-> akeys, history |-> history,
            hkeys |-> hkeys, ret |-> None]

\* install the manager state st and record the call
Install(st, op, symbol, req, price, ret) ==
    /\ active'  = st.active
    /\ akeys'   = st.akeys
    /\ history' = st.history
    /\ hkeys'   = st.hkeys
    /\ last'    = Call(op, symbol, req, price, ret)
    /\ UNCHANGED now

\* a signal, strategy and interval handed to open_trade
Request(signal, strategy, interval) ==
    [signal |-> signal, strategy |-> strategy, interval |-> interval]

\* open_trade without the test of line 80: the new trade replaces the old
OpenTradeOverwrites(signal, symbol, strategy, interval) ==
    LET trade == NewTrade(signal, symbol, strategy, interval, now)
    IN  Install([Manager EXCEPT !.active = [active EXCEPT ![symbol] = trade],
                                !.akeys  = WithKey(akeys, symbol)],
                "open_trade", symbol, Request(signal, strategy, interval),
                Missing, trade)

\* TradeManager.open_trade (lines 72-110)
OpenTrade(signal, symbol, strategy, interval) ==
    IF active[symbol] # None
    THEN Install(Manager, "open_trade", symbol,
                 Request(signal, strategy, interval), Missing, None)
    ELSE LET trade == NewTrade(signal, symbol, strategy, interval, now)
         IN  Install([Manager EXCEPT !.active = [active EXCEPT ![symbol] = trade],
                                     !.akeys  = WithKey(akeys, symbol)],
                     "open_trade", symbol,
                     Request(signal, strategy, interval), Missing, trade)

\* TradeManager.check_exits (lines 112-153)
CheckExits(current_price, symbol) ==
    LET trade == active[symbol]
    IN  IF trade = None
        THEN Install(Manager, "check_exits", symbol, None, current_price, None)
        ELSE LET reason == ExitReason(trade, current_price, symbol, now)
             IN  IF reason # NoReason
                 THEN LET st == CloseTrade(Manager, symbol, current_price, reason, now)
                      IN  Install(st, "check_exits", symbol, None, current_price, st.ret)
                 ELSE Install(Manager, "check_exits", symbol, None, current_price, None)

\* force_close without the test of line 158
ForceCloseUnguarded(symbol, price, reason) ==
    LET st == CloseTrade(Manager, symbol, price, reason, now)
    IN  Install(st, "force_close", symbol, [reason |-> reason], price, st.ret)

\* force_close that closes only a trade one of whose exit conditions holds
ForceCloseOnExitOnly(symbol, price, reason) ==
    IF active[symbol] = None
       \/ ExitReason(active[symbol], price, symbol, now) = NoReason
    THEN Install(Manager, "force_close", symbol, [reason |-> reason], price,
                 None)
    ELSE LET st == CloseTrade(Manager, symbol, price, reason, now)
         IN  Install(st, "force_close", symbol, [reason |-> reason], price,
                     st.ret)

\* TradeManager.force_close (lines 155-160); the call is recorded with its
\* reason in the place of the request
ForceClose(symbol, price, reason) ==
    IF active[symbol] = None
    THEN Install(Manager, "force_close", symbol, [reason |-> reason], price,
                 None)
    ELSE LET st == CloseTrade(Manager, symbol, price, reason, now)
         IN  Install(st, "force_close", symbol, [reason |-> reason], price,
                     st.ret)

\* TradeManager.get_active (lines 162-171)
GetActive(symbol) ==
    LET t == active[symbol]
    IN  IF t = None
        THEN Install(Manager, "get_active", symbol, None, Missing, None)
        ELSE Install(Manager, "get_active", symbol, None, Missing,
                     [ symbol                |-> t.symbol,
                       timeframe             |-> t.timeframe,
                       strategy              |-> t.strategy,
                       side                  |-> t.side,
                       entry_price           |-> t.entry_price,
                       target_price          |-> t.target_price,
                       stop_loss             |-> t.stop_loss,
                       confidence            |-> t.confidence,
                       entry_time            |-> t.entry_time,
                       expected_time_minutes |-> t.expected_time_minutes,
                       expected_bars         |-> t.expected_bars,
                       rsi                   |-> t.rsi,
                       atr                   |-> t.atr,
                       status                |-> t.status,
                       elapsed_minutes       |->
                           10 * ElapsedMinutes(t.entry_time_dt, now) ])

\* TradeManager.get_history(symbol) with a symbol given (lines 185-186)
GetHistory(symbol) ==
    Install(Manager, "get_history", symbol, None, Missing,
            [list |-> Reversed(history[symbol])])

\* xs with x inserted before the first element whose exit_time is smaller:
\* one step of the stable sort by exit_time, latest first
RECURSIVE InsertByExitTime(_, _)
InsertByExitTime(xs, x) ==
    IF xs = <<>> THEN <<x>>
    ELSE IF Head(xs).exit_time.iso < x.exit_time.iso THEN <<x>> \o xs
    ELSE <<Head(xs)>> \o InsertByExitTime(Tail(xs), x)

\* list.sort(key=exit_time, reverse=True): stable, latest first
RECURSIVE SortByExitTimeDesc(_)
SortByExitTimeDesc(xs) ==
    IF xs = <<>> THEN <<>>
    ELSE InsertByExitTime(SortByExitTimeDesc(SubSeq(xs, 1, Len(xs) - 1)),
                          xs[Len(xs)])

\* the histories of the instruments in keys, one after the other
RECURSIVE ExtendAll(_, _)
ExtendAll(keys, hist) ==
    IF keys = <<>> THEN <<>>
    ELSE hist[Head(keys)] \o ExtendAll(Tail(keys), hist)

\* TradeManager.get_history() without a symbol (lines 187-191)
GetHistoryAll ==
    LET out == SortByExitTimeDesc(ExtendAll(hkeys, history))
    IN  Install(Manager, "get_history", None, None, Missing,
                [list |-> SubSeq(out, 1, Min(Len(out), 100))])

\* eod_sweep without the test of line 203: every Active trade is closed
RECURSIVE SweepFromAll(_, _, _, _, _)
SweepFromAll(keys, st, events, quote, t) ==
    IF keys = <<>> THEN [st EXCEPT !.ret = [events |-> events]]
    ELSE LET sym   == Head(keys)
             price == IF Truthy(quote[sym]) THEN quote[sym]
                      ELSE st.active[sym].entry_price
             st2   == CloseTrade(st, sym, price, "EOD Exit", t)
         IN  SweepFromAll(Tail(keys), st2, Append(events, st2.ret), quote, t)

\* the loop of eod_sweep (lines 200-213) over the keys still to visit;
\* quote[sym] is what the price lookup yields (Missing when it fails)
RECURSIVE SweepFrom(_, _, _, _, _)
SweepFrom(keys, st, events, quote, t) ==
    IF keys = <<>> THEN [st EXCEPT !.ret = [events |-> events]]
    ELSE LET sym    == Head(keys)
             reason == CheckEod(sym, t)
         IN  IF reason # NoReason
             THEN LET price == IF Truthy(quote[sym]) THEN quote[sym]
                               ELSE st.active[sym].entry_price
                      st2   == CloseTrade(st, sym, price, reason, t)
                  IN  SweepFrom(Tail(keys), st2,
                                IF st2.ret # [empty |-> TRUE]
                                THEN Append(events, st2.ret) ELSE events,
                                quote, t)
             ELSE SweepFrom(Tail(keys), st, events, quote, t)

\* TradeManager.eod_sweep (lines 193-214); the call is recorded with the
\* prices its lookups yielded in the place of the request
EodSweep(quote) ==
    LET st == SweepFrom(akeys, Manager, <<>>, quote, now)
    IN  Install(st, "eod_sweep", None, quote, Missing, st.ret)

\* the wall clock moves on to the instant t
Advance(t) ==
    /\ t > now
    /\ now' = t
    /\ UNCHANGED <<active, akeys, history, hkeys, last>>

----------------------------------------------------------------------------
(* Inputs *)

\* a strategy signal: type, price, sl, tp, rsi, atr, target_bars, bars
Signal(type, price, sl, tp, rsi, atr, target_bars, bars) ==
    [type |-> type, price |-> price, sl |-> sl, tp |-> tp, rsi |-> rsi,
     atr |-> atr, target_bars |-> target_bars, bars |-> bars]

\* BUY at 100 with stop 98 and target 104, RSI 62.345, no target_bars
BuySignal == Signal("BUY", 10000000, 9800000, 10400000, 62345, 200000,
                    Missing, Missing)

\* SELL at 100 with stop 101 and target 98, RSI 38, 1.44 target bars
SellSignal == Signal("SELL", 10000000, 10100000, 9800000, 38000, 100000,
                     144, Missing)

\* BUY at 100.00004 with stop = target = entry (ATR 0), 'bars' = 1
FlatSignal == Signal("BUY", 10000004, 10000004, 10000004, Missing, 0,
                     0, 100)

\* BUY at 100 with stop 98 and target 104 that is expected to take 10 weeks
LongSignal == Signal("BUY", 10000000, 9800000, 10400000, 50000, 200000,
                     1000, Missing)

\* the instant of day d (0 = Monday 2024-03-04) at minute m of the UTC day
At(d, m) == d * 1440 + m

\* the WebSocket sessions and the threadpool workers of the model
Clients == {1}
Workers == {1, 2}

\* a session that has not connected: its position in ws_endpoint, the
\* subscribed symbol, tick_count (kept modulo 60), the position of the scan
\* in the watchlist, the instruments check_exits was called for in this
\* pass of the loop, and the signal sent last with the time of the last
\* bar of the DataFrame it came from
NoSession ==
    [pc |-> "closed", sym |-> None, tick_count |-> 0, i |-> 1,
     checked |-> {}, sent |-> None]

\* a worker that serves no request
Idle == [pc |-> "idle", symbol |-> None, req |-> None, trade |-> None]

\* the intervals a session asks bars for, and the keys of _bar_state:
\* f"{sym}_{iv_key}" (main.py line 286)
BarIntervals == {"1m", "5m"}

BarKeys == [sym : {RELIANCE_NS}, iv : BarIntervals]

\* the module state of main.py after import (lines 19-23)
InitMain ==
    /\ ws_clients      = [c \in Clients |-> NoSession]
    /\ last_signal_key = [s \in Symbols |-> Missing]
    /\ signal_history  = <<>>
    /\ opened          = [s \in Symbols |-> 0]
    /\ pool            = [w \in Workers |-> Idle]
    /\ bar_state       = [k \in BarKeys |-> None]

\* the state after TradeManager.__init__ (lines 64-68), the clock at t0
InitAt(t0) ==
    /\ active  = [s \in Symbols |-> None]
    /\ akeys   = <<>>
    /\ history = [s \in Symbols |-> <<>>]
    /\ hkeys   = <<>>
    /\ now     = t0
    /\ last    = Call("init", None, None, Missing, None)
    /\ InitMain

\* the number of records in the histories of the instruments in keys
RECURSIVE ClosedCount(_)
ClosedCount(keys) ==
    IF keys = <<>> THEN 0 ELSE Len(history[Head(keys)]) + ClosedCount(Tail(keys))

\* trades opened so far (while no history is at its cap)
TradeCount == Len(akeys) + ClosedCount(hkeys)

\* the instruments in a key sequence
KeySet(keys) == {keys[i] : i \in 1..Len(keys)}

\* what the price lookups of one eod_sweep can yield for the Active trades
Quotes(prices) == [KeySet(akeys) -> prices]

----------------------------------------------------------------------------
(* Indicators (src/backend/indicators.py).  A DataFrame is the sequence of  *)
(* its rows, a Series the sequence of its numbers; row i of the code        *)
(* (counted from 0) is element i + 1.  The series the code hands to ewm     *)
(* have their NaN in front only.                                            *)

\* a row of the DataFrame of get_data: its index (a bar time in minutes)
\* and its High, Low, Close (points) and Volume columns
Bar(time, high, low, close, volume) ==
    [time |-> time, high |-> high, low |-> low, close |-> close,
     volume |-> volume]

\* the columns of a DataFrame
High(df)   == [i \in 1..Len(df) |-> Num(df[i].high)]
Low(df)    == [i \in 1..Len(df) |-> Num(df[i].low)]
Close(df)  == [i \in 1..Len(df) |-> Num(df[i].close)]
Volume(df) == [i \in 1..Len(df) |-> Num(df[i].volume)]

\* Series.shift(1)
Shift1(s) == [i \in DOMAIN s |-> IF i = 1 THEN NaN ELSE s[i - 1]]

\* x * k and x / k for a positive integer k
Scale(x, k) == Mul(x, Num(k))
DivInt(x, k) == Div(x, Num(k))

AbsNum(x) == IF IsNaN(x) THEN NaN ELSE Frac(x.sgn * x.sgn, x.n, x.d)

\* one more row of Series.ewm(alpha = a / D, adjust=False).mean() after
\* the rows ys:  y[0] = x[0],  y[t] = (1 - alpha) * y[t-1] + alpha * x[t]
EwmStep(xs, ys, a, D) ==
    LET i    == Len(ys) + 1
        x    == xs[i]
        prev == IF i = 1 THEN NaN ELSE ys[i - 1]
    IN  IF IsNaN(x) THEN prev
        ELSE IF IsNaN(prev) THEN x
        ELSE IF Cmp(prev, x) = 0 THEN x
        ELSE DivInt(Add(Scale(prev, D - a), Scale(x, a)), D)

\* the rows ys continued up to row n, the first half of the missing rows
\* before the second
RECURSIVE EwmTo(_, _, _, _, _)
EwmTo(xs, ys, n, a, D) ==
    IF Len(ys) >= n THEN ys
    ELSE IF Len(ys) + 1 = n THEN Append(ys, EwmStep(xs, ys, a, D))
    ELSE EwmTo(xs, EwmTo(xs, ys, (Len(ys) + n) \div 2, a, D), n, a, D)

Ewm(xs, a, D) == EwmTo(xs, <<>>, Len(xs), a, D)

\* ema (lines 5-6): span = length, alpha = 2 / (length + 1)
Ema(series, length) == Ewm(series, 2, length + 1)

\* rsi (lines 9-16): com = length - 1, alpha = 1 / length
\* series.diff()
Diff(series) ==
    [i \in DOMAIN series |->
        IF i = 1 THEN NaN ELSE Sub(series[i], series[i - 1])]

\* delta.clip(lower=0)
ClipLower0(delta) ==
    [i \in DOMAIN delta |->
        IF IsNaN(delta[i]) THEN NaN
        ELSE IF delta[i].sgn < 0 THEN Num(0) ELSE delta[i]]

\* -delta.clip(upper=0)
NegClipUpper0(delta) ==
    [i \in DOMAIN delta |->
        IF IsNaN(delta[i]) THEN NaN
        ELSE IF delta[i].sgn > 0 THEN Num(0) ELSE Neg(delta[i])]

\* avg_gain / avg_loss.replace(0, np.nan) (line 15)
Rs(avg_gain, avg_loss) ==
    [i \in DOMAIN avg_gain |->
        IF IsNaN(avg_loss[i]) \/ avg_loss[i].sgn = 0 THEN NaN
        ELSE Div(avg_gain[i], avg_loss[i])]

\* 100 - (100 / (1 + rs)) (line 16)
RsiOf(rs) ==
    [i \in DOMAIN rs |-> Sub(Num(100), Div(Num(100), Add(Num(1), rs[i])))]

Rsi(series, length) ==
    RsiOf(Rs(Ewm(ClipLower0(Diff(series)), 1, length),
             Ewm(NegClipUpper0(Diff(series)), 1, length)))

\* the larger of two numbers, NaN skipped (DataFrame.max(axis=1))
MaxSkipNa(x, y) ==
    IF IsNaN(x) THEN y ELSE IF IsNaN(y) THEN x
    ELSE IF Cmp(x, y) >= 0 THEN x ELSE y

\* tr of atr (lines 21-25)
TrueRange(high, low, prev_close) ==
    [i \in DOMAIN high |->
        MaxSkipNa(Sub(high[i], low[i]),
                  MaxSkipNa(AbsNum(Sub(high[i], prev_close[i])),
                            AbsNum(Sub(low[i], prev_close[i]))))]

\* atr (lines 19-26)
Atr(high, low, close, length) ==
    Ewm(TrueRange(high, low, Shift1(close)), 1, length)

\* a lower band that follows the raw band
NextLowerRaw(raw, prev_lower, prev_close) == raw

\* lower[i] of supertrend (lines 63-66)
NextLower(raw, prev_lower, prev_close) ==
    IF Gt(raw, prev_lower) \/ Lt(prev_close, prev_lower)
    THEN raw ELSE prev_lower

\* upper[i] of supertrend (lines 70-73)
NextUpper(raw, prev_upper, prev_close) ==
    IF Lt(raw, prev_upper) \/ Gt(prev_close, prev_upper)
    THEN raw ELSE prev_upper

\* a direction that reads the wall clock: bearish at odd minutes
NextDirByClock(prev_dir, close, up, lo) ==
    IF now % 2 = 1 THEN Num(1)
    ELSE IF prev_dir = Num(1)
    THEN (IF Gt(close, up) THEN Num(-1) ELSE Num(1))
    ELSE (IF Lt(close, lo) THEN Num(1) ELSE Num(-1))

\* a direction that also flips when the close is on the band
NextDirOnTouch(prev_dir, close, up, lo) ==
    IF prev_dir = Num(1)
    THEN (IF Geq(close, up) THEN Num(-1) ELSE Num(1))
    ELSE (IF Leq(close, lo) THEN Num(1) ELSE Num(-1))

\* st_dir[i] of supertrend (lines 76-85)
NextDir(prev_dir, close, up, lo) ==
    IF prev_dir = Num(1)
    THEN (IF Gt(close, up) THEN Num(-1) ELSE Num(1))
    ELSE (IF Lt(close, lo) THEN Num(1) ELSE Num(-1))

\* a row of the arrays upper, lower and st_dir
SupertrendRow(prev_dir, close, up, lo) ==
    [upper |-> up, lower |-> lo, st_dir |-> NextDir(prev_dir, close, up, lo)]

\* one pass of the loop of supertrend (lines 60-85) after the rows already
\* computed; a row holds upper[i], lower[i] and st_dir[i]
SupertrendStep(rows, close_arr, upper_arr, lower_arr) ==
    LET i == Len(rows) + 1
    IN  SupertrendRow(rows[i - 1].st_dir, close_arr[i],
                      NextUpper(upper_arr[i], rows[i - 1].upper,
                                close_arr[i - 1]),
                      NextLower(lower_arr[i], rows[i - 1].lower,
                                close_arr[i - 1]))

\* the loop continued up to row n, by halves
RECURSIVE SupertrendTo(_, _, _, _, _)
SupertrendTo(rows, n, close_arr, upper_arr, lower_arr) ==
    IF Len(rows) >= n THEN rows
    ELSE IF Len(rows) + 1 = n
    THEN Append(rows, SupertrendStep(rows, close_arr, upper_arr, lower_arr))
    ELSE SupertrendTo(SupertrendTo(rows, (Len(rows) + n) \div 2,
                                   close_arr, upper_arr, lower_arr),
                      n, close_arr, upper_arr, lower_arr)

\* what a call that raises IndexError leaves instead of a series: no row
\* 1..n, the exception at 0
IndexError == [i \in {0} |-> "IndexError"]

Raised(ret) == 0 \in DOMAIN ret

\* hl2 and the raw bands (lines 40-44)
Hl2(high, low) == [i \in DOMAIN high |-> DivInt(Add(high[i], low[i]), 2)]

RawUpper(hl2, atr_vals, factor) ==
    [i \in DOMAIN hl2 |-> Add(hl2[i], Scale(atr_vals[i], factor))]

RawLower(hl2, atr_vals, factor) ==
    [i \in DOMAIN hl2 |-> Sub(hl2[i], Scale(atr_vals[i], factor))]

\* the arrays upper, lower and st_dir after the loop (lines 46-85), a row
\* for each bar; upper[0] = upper_arr[0] raises on arrays of length 0
SupertrendRows(close_arr, upper_arr, lower_arr) ==
    IF Len(close_arr) = 0 THEN IndexError
    ELSE SupertrendTo(<<[upper |-> upper_arr[1], lower |-> lower_arr[1],
                         st_dir |-> Num(1)]>>,
                      Len(close_arr), close_arr, upper_arr, lower_arr)

\* the arrays of supertrend for the ATR series atr_vals
SupertrendBands(high, low, close, factor, atr_vals) ==
    SupertrendRows(close, RawUpper(Hl2(high, low), atr_vals, factor),
                   RawLower(Hl2(high, low), atr_vals, factor))

\* pd.Series(st_dir, index=close.index, dtype=float) (line 87)
StDir(rows) ==
    IF Raised(rows) THEN rows
    ELSE [i \in DOMAIN rows |-> rows[i].st_dir]

\* supertrend (lines 29-87): the direction, 1 bearish, -1 bullish
Supertrend(high, low, close, factor, atr_len) ==
    StDir(SupertrendBands(high, low, close, factor,
                          Atr(high, low, close, atr_len)))

\* s1 above s2, whatever the row before
CrossoverLevel(s1, s2) == [i \in DOMAIN s1 |-> Gt(s1[i], s2[i])]

\* crossover and crossunder (lines 90-94)
Crossover(s1, s2) ==
    [i \in DOMAIN s1 |-> Leq(Shift1(s1)[i], Shift1(s2)[i]) /\ Gt(s1[i], s2[i])]

\* s1 strictly above s2 on the row before and below it on this row
CrossunderStrict(s1, s2) ==
    [i \in DOMAIN s1 |-> Gt(Shift1(s1)[i], Shift1(s2)[i]) /\ Lt(s1[i], s2[i])]

Crossunder(s1, s2) ==
    [i \in DOMAIN s1 |-> Geq(Shift1(s1)[i], Shift1(s2)[i]) /\ Lt(s1[i], s2[i])]

----------------------------------------------------------------------------
(* Strategies (src/backend/strategies.py) *)

\* round(x, 4) of a number of a series that counts points
Round4Num(x) ==
    (IF x.sgn >= 0 THEN 10 ELSE -10)
        * RoundScaled(DivInt(AbsNum(x), 10), 1, 200000000)

\* _build_signal (lines 13-27) for row k; the RSI of the dict counts 0.001
BuildSignal(df, k, typ, a_series, r_series) ==
    LET close == Num(df[k].close)
        av    == a_series[k]
        rv    == r_series[k]
    IN  [ time  |-> df[k].time,
          type  |-> typ,
          price |-> Round4Num(close),
          sl    |-> Round4Num(Add(close, IF typ = "BUY" THEN Neg(av)
                                         ELSE av)),
          tp    |-> Round4Num(Add(close, IF typ = "BUY" THEN Scale(av, 2)
                                         ELSE Neg(Scale(av, 2)))),
          rsi   |-> 10 * RoundScaled(rv, 100, 10000),
          atr   |-> Round4Num(av),
          target_bars |-> Missing,
          bars  |-> Missing ]

\* the loop every strategy ends with, over the rows lo..hi: a BUY where
\* buy holds, else a SELL where sell holds; the rows are taken by halves
RECURSIVE SignalsIn(_, _, _, _, _, _, _)
SignalsIn(df, lo, hi, buy, sell, a, r) ==
    IF lo > hi THEN <<>>
    ELSE IF lo = hi
    THEN (IF buy[lo] \/ sell[lo]
          THEN <<BuildSignal(df, lo, IF buy[lo] THEN "BUY" ELSE "SELL",
                             a, r)>>
          ELSE <<>>)
    ELSE SignalsIn(df, lo, (lo + hi) \div 2, buy, sell, a, r)
         \o SignalsIn(df, (lo + hi) \div 2 + 1, hi, buy, sell, a, r)

SignalsFrom(df, k, buy, sell, a, r) ==
    SignalsIn(df, k, Len(df), buy, sell, a, r)

\* strategy_pro_mtf (lines 34-48): the conditions buy and sell
ProMtfBuy(c, cu, r, e200, st) ==
    [i \in DOMAIN c |->
        cu[i] /\ Gt(r[i], Num(50)) /\ Gt(c[i], e200[i]) /\ Lt(st[i], Num(0))]

ProMtfSell(c, cd, r, e200, st) ==
    [i \in DOMAIN c |->
        cd[i] /\ Lt(r[i], Num(50)) /\ Lt(c[i], e200[i]) /\ Gt(st[i], Num(0))]

ProMtfSignals(df, c, e9, e21, e200, r, a, st) ==
    SignalsFrom(df, 2, ProMtfBuy(c, Crossover(e9, e21), r, e200, st),
                ProMtfSell(c, Crossunder(e9, e21), r, e200, st), a, r)

StrategyProMtf(df) ==
    ProMtfSignals(df, Close(df), Ema(Close(df), 9), Ema(Close(df), 21),
                  Ema(Close(df), 200), Rsi(Close(df), 14),
                  Atr(High(df), Low(df), Close(df), 14),
                  Supertrend(High(df), Low(df), Close(df), 3, 10))

\* the sum of the rows lo..hi of a series, NaN rows skipped, by halves
RECURSIVE SumSkipNa(_, _, _)
SumSkipNa(s, lo, hi) ==
    IF lo > hi THEN Num(0)
    ELSE IF lo = hi THEN (IF IsNaN(s[lo]) THEN Num(0) ELSE s[lo])
    ELSE Add(SumSkipNa(s, lo, (lo + hi) \div 2),
             SumSkipNa(s, (lo + hi) \div 2 + 1, hi))

\* Series.cumsum(): NaN rows are skipped and stay NaN
CumSum(s) ==
    [i \in DOMAIN s |-> IF IsNaN(s[i]) THEN NaN ELSE SumSkipNa(s, 1, i)]

\* strategy_vwap_ema (lines 55-69): tp, tp * v, v.replace(0, nan), vwap
TypicalPrice(high, low, c) ==
    [i \in DOMAIN c |-> DivInt(Add(Add(high[i], low[i]), c[i]), 3)]

Times(s1, s2) == [i \in DOMAIN s1 |-> Mul(s1[i], s2[i])]

ZeroToNaN(v) == [i \in DOMAIN v |-> IF v[i].sgn = 0 THEN NaN ELSE v[i]]

Over(num, den) == [i \in DOMAIN num |-> Div(num[i], den[i])]

Vwap(high, low, c, v) ==
    Over(CumSum(Times(TypicalPrice(high, low, c), v)), CumSum(ZeroToNaN(v)))

VwapEmaBuy(cv_up, e9, e21, r) ==
    [i \in DOMAIN r |-> cv_up[i] /\ Gt(e9[i], e21[i]) /\ Gt(r[i], Num(50))]

VwapEmaSell(cv_dn, e9, e21, r) ==
    [i \in DOMAIN r |-> cv_dn[i] /\ Lt(e9[i], e21[i]) /\ Lt(r[i], Num(50))]

VwapEmaSignals(df, c, vwap, e9, e21, r, a) ==
    SignalsFrom(df, 2, VwapEmaBuy(Crossover(c, vwap), e9, e21, r),
                VwapEmaSell(Crossunder(c, vwap), e9, e21, r), a, r)

StrategyVwapEma(df) ==
    VwapEmaSignals(df, Close(df),
                   Vwap(High(df), Low(df), Close(df), Volume(df)),
                   Ema(Close(df), 9), Ema(Close(df), 21), Rsi(Close(df), 14),
                   Atr(High(df), Low(df), Close(df), 14))

\* strategy_rsi_reversal (lines 76-94): r.shift(1).fillna(50)
RsiPrev(r) ==
    [i \in DOMAIN r |->
        IF i = 1 THEN Num(50)
        ELSE IF IsNaN(r[i - 1]) THEN Num(50) ELSE r[i - 1]]

RsiReversalBuy(c, r, rp, e50) ==
    [i \in DOMAIN c |->
        Lt(rp[i], Num(30)) /\ Geq(r[i], Num(30)) /\ Gt(c[i], e50[i])]

RsiReversalSell(c, r, rp, e50) ==
    [i \in DOMAIN c |->
        Gt(rp[i], Num(70)) /\ Leq(r[i], Num(70)) /\ Lt(c[i], e50[i])]

RsiReversalSignals(df, c, r, a, e50) ==
    SignalsFrom(df, 2, RsiReversalBuy(c, r, RsiPrev(r), e50),
                RsiReversalSell(c, r, RsiPrev(r), e50), a, r)

StrategyRsiReversal(df) ==
    RsiReversalSignals(df, Close(df), Rsi(Close(df), 14),
                       Atr(High(df), Low(df), Close(df), 14),
                       Ema(Close(df), 50))

\* the sum of the rows lo..hi of a series, by halves
RECURSIVE SumRows(_, _, _)
SumRows(s, lo, hi) ==
    IF lo = hi THEN s[lo]
    ELSE Add(SumRows(s, lo, (lo + hi) \div 2),
             SumRows(s, (lo + hi) \div 2 + 1, hi))

\* the sum of the rows i - w + 1 .. i of a series
WindowSum(s, i, w) == SumRows(s, i - w + 1, i)

\* Series.rolling(w).mean()
RollingMean(s, w) ==
    [i \in DOMAIN s |-> IF i < w THEN NaN ELSE DivInt(WindowSum(s, i, w), w)]

\* the squares of the distances of the rows of s from m
SquaresFrom(s, m) == [j \in DOMAIN s |-> Mul(Sub(s[j], m), Sub(s[j], m))]

\* the sample variance of the window of w rows that ends at row i
WindowVar(s, i, w, m) == DivInt(WindowSum(SquaresFrom(s, m), i, w), w - 1)

\* the square of Series.rolling(w).std(): the sample variance of the window
RollingVar(s, w) ==
    [i \in DOMAIN s |->
        IF i < w THEN NaN
        ELSE WindowVar(s, i, w, DivInt(WindowSum(s, i, w), w))]

\* the square of x
Square(x) == Mul(x, x)

\* x > m + 2 * std and x < m - 2 * std, var being the square of std
AboveUpper(x, m, var) ==
    /\ Gt(x, m)
    /\ Gt(Square(Sub(x, m)), Scale(var, 4))

BelowLower(x, m, var) ==
    /\ Lt(x, m)
    /\ Gt(Square(Sub(m, x)), Scale(var, 4))

\* strategy_bollinger (lines 101-118); c_p <= up_p is the negation of
\* c_p > up_p, no number of these rows being NaN from row 20 on
VolOk(v, vm) ==
    [i \in DOMAIN v |-> Gt(v[i], DivInt(Scale(vm[i], 13), 10))]

BollingerBuy(c, sma, var, r, vol_ok) ==
    [i \in DOMAIN c |->
        /\ i > 20
        /\ ~AboveUpper(c[i - 1], sma[i - 1], var[i - 1])
        /\ AboveUpper(c[i], sma[i], var[i])
        /\ Gt(r[i], Num(55))
        /\ vol_ok[i]]

BollingerSell(c, sma, var, r, vol_ok) ==
    [i \in DOMAIN c |->
        /\ i > 20
        /\ ~BelowLower(c[i - 1], sma[i - 1], var[i - 1])
        /\ BelowLower(c[i], sma[i], var[i])
        /\ Lt(r[i], Num(45))
        /\ vol_ok[i]]

BollingerSignals(df, c, sma, var, r, a, vol_ok) ==
    SignalsFrom(df, 21, BollingerBuy(c, sma, var, r, vol_ok),
                BollingerSell(c, sma, var, r, vol_ok), a, r)

StrategyBollinger(df) ==
    BollingerSignals(df, Close(df), RollingMean(Close(df), 20),
                     RollingVar(Close(df), 20), Rsi(Close(df), 14),
                     Atr(High(df), Low(df), Close(df), 14),
                     VolOk(Volume(df), RollingMean(Volume(df), 20)))

\* strategy_macd (lines 125-141)
Minus(s1, s2) == [i \in DOMAIN s1 |-> Sub(s1[i], s2[i])]

MacdBuy(cu_m, hist, r) ==
    [i \in DOMAIN r |-> cu_m[i] /\ Gt(hist[i], Num(0)) /\ Gt(r[i], Num(50))]

MacdSell(cd_m, hist, r) ==
    [i \in DOMAIN r |-> cd_m[i] /\ Lt(hist[i], Num(0)) /\ Lt(r[i], Num(50))]

MacdSignals(df, macd, signal, r, a) ==
    SignalsFrom(df, 2,
                MacdBuy(Crossover(macd, signal), Minus(macd, signal), r),
                MacdSell(Crossunder(macd, signal), Minus(macd, signal), r),
                a, r)

MacdOf(df, macd) ==
    MacdSignals(df, macd, Ema(macd, 9), Rsi(Close(df), 14),
                Atr(High(df), Low(df), Close(df), 14))

StrategyMacd(df) == MacdOf(df, Minus(Ema(Close(df), 12), Ema(Close(df), 26)))

\* strategy_supertrend_scalper (lines 148-160)
ScalperBuy(st_f, st_p, r) ==
    [i \in DOMAIN r |->
        Gt(st_p[i], Num(0)) /\ Lt(st_f[i], Num(0)) /\ Gt(r[i], Num(45))]

ScalperSell(st_f, st_p, r) ==
    [i \in DOMAIN r |->
        Lt(st_p[i], Num(0)) /\ Gt(st_f[i], Num(0)) /\ Lt(r[i], Num(55))]

ScalperSignals(df, st_f, r, a) ==
    SignalsFrom(df, 2, ScalperBuy(st_f, Shift1(st_f), r),
                ScalperSell(st_f, Shift1(st_f), r), a, r)

StrategySupertrendScalper(df) ==
    ScalperSignals(df, Supertrend(High(df), Low(df), Close(df), 2, 7),
                   Rsi(Close(df), 14), Atr(High(df), Low(df), Close(df), 14))

\* the keys of the registry STRATEGIES (lines 166-221)
StrategyKeys == {"pro_mtf", "vwap_ema", "rsi_reversal", "bollinger", "macd",
                 "supertrend_scalper"}

\* STRATEGIES[key]['fn'](df, ts_fn)
Strategy(key, df) ==
    CASE key = "pro_mtf"            -> StrategyProMtf(df)
      [] key = "vwap_ema"           -> StrategyVwapEma(df)
      [] key = "rsi_reversal"       -> StrategyRsiReversal(df)
      [] key = "bollinger"          -> StrategyBollinger(df)
      [] key = "macd"               -> StrategyMacd(df)
      [] key = "supertrend_scalper" -> StrategySupertrendScalper(df)

----------------------------------------------------------------------------
(* Spec: the lifecycle of up to MaxTrades trades on two instruments *)

LifeSymbols == {RELIANCE_NS, AAPL}

LifeRequests == { Request(BuySignal, "pro_mtf", "1m"),
                  Request(SellSignal, "vwap_ema", "1d") }

LifePrices == {10450000, 10000000}

\* Friday 2024-03-08, 15:14 and 15:20 in Kolkata
LifeTimes == {At(4, 584), At(4, 590)}

LifeOpen ==
    /\ \E r \in LifeRequests, s \in LifeSymbols :
           /\ active[s] # None \/ TradeCount < MaxTrades
           /\ OpenTrade(r.signal, s, r.strategy, r.interval)
    /\ UNCHANGED mainVars

LifeCheckExits ==
    /\ \E p \in LifePrices, s \in LifeSymbols : CheckExits(p, s)
    /\ UNCHANGED mainVars

LifeForceClose ==
    /\ \E s \in LifeSymbols : ForceClose(s, 10000000, "Manual Close")
    /\ UNCHANGED mainVars

LifeGetActive ==
    /\ \E s \in LifeSymbols : GetActive(s)
    /\ UNCHANGED mainVars

LifeGetHistory ==
    /\ \E s \in LifeSymbols : GetHistory(s)
    /\ UNCHANGED mainVars

LifeGetHistoryAll ==
    /\ GetHistoryAll
    /\ UNCHANGED mainVars

LifeEodSweep ==
    /\ \E q \in Quotes({Missing, 10100000}) : EodSweep(q)
    /\ UNCHANGED mainVars

LifeAdvance ==
    /\ \E t \in LifeTimes :
           /\ akeys # <<>> \/ TradeCount < MaxTrades
           /\ Advance(t)
    /\ UNCHANGED mainVars

Init == InitAt(At(4, 584))

Next ==
    \/ LifeOpen
    \/ LifeCheckExits
    \/ LifeForceClose
    \/ LifeGetActive
    \/ LifeGetHistory
    \/ LifeGetHistoryAll
    \/ LifeEodSweep
    \/ LifeAdvance

Spec == Init /\ [][Next]_vars

----------------------------------------------------------------------------
(* SpecExit: one trade, every kind of signal and tick, closed in every way *)

\* SELL at 100.00004 with stop = target = entry (ATR 0), 'bars' = 1
FlatSellSignal == Signal("SELL", 10000004, 10000004, 10000004, Missing, 0,
                         0, 100)

ExitSymbols == {RELIANCE_NS, AAPL}

\* BUY at 0.00004, which is stored as an entry price of 0
ZeroSignal == Signal("BUY", 4, 0, 20, 50000, 10, Missing, Missing)

ExitRequests == { Request(BuySignal, "pro_mtf", "1m"),
                  Request(ZeroSignal, "pro_mtf", "1d"),
                  Request(SellSignal, "vwap_ema", "1d"),
                  Request(FlatSignal, "pro_mtf", "3m"),
                  Request(FlatSellSignal, "pro_mtf", "3m") }

\* ticks at 104.5, 104.50003, 100, 97.9999
ExitPrices == {10450000, 10450003, 10000000, 9799990}

\* Friday 2024-03-08, 15:14, 15:19, 15:20 and 15:21 in Kolkata
ExitTimes == {At(4, 584), At(4, 589), At(4, 590), At(4, 591)}

\* no trade has been opened yet
NoTradeYet == akeys = <<>> /\ hkeys = <<>>

ExitOpen ==
    /\ \E r \in ExitRequests, s \in ExitSymbols :
           /\ active[s] # None \/ NoTradeYet
           /\ OpenTrade(r.signal, s, r.strategy, r.interval)
    /\ UNCHANGED mainVars

ExitCheckExits ==
    /\ \E p \in ExitPrices, s \in ExitSymbols : CheckExits(p, s)
    /\ UNCHANGED mainVars

\* the reason of main.py's manual close (line 129) and another one
ExitReasons == {"Manual Close", "Risk Limit"}

ExitForceClose ==
    /\ \E p \in ExitPrices, s \in ExitSymbols, r \in ExitReasons :
           ForceClose(s, p, r)
    /\ UNCHANGED mainVars

ExitEodSweep ==
    /\ \E q \in Quotes({Missing, 0, 10100000}) : EodSweep(q)
    /\ UNCHANGED mainVars

ExitAdvance ==
    /\ \E t \in ExitTimes :
           /\ akeys # <<>> \/ NoTradeYet
           /\ Advance(t)
    /\ UNCHANGED mainVars

NextExit ==
    \/ ExitOpen
    \/ ExitCheckExits
    \/ ExitForceClose
    \/ ExitEodSweep
    \/ ExitAdvance

SpecExit == Init /\ [][NextExit]_vars

----------------------------------------------------------------------------
(* SpecWeek: one trade followed through the days 0..MaxDay *)

\* minutes of the UTC day at which the clock is sampled: midnight, the minute
\* before and the minute of New York's midnight (EDT, EST), of Kolkata's
\* 15:20, of Kolkata's midnight, of New York's 15:55 (EDT, EST), 23:59
DayMinutes == {0, 239, 240, 299, 300, 589, 590, 1109, 1110, 1194, 1195,
               1254, 1255, 1439}

WeekTimes == {At(d, m) : d \in 0..MaxDay, m \in DayMinutes}

WeekRequests == { Request(LongSignal, "pro_mtf", "1wk") }

\* trades are opened at midnight UTC only
WeekOpen ==
    /\ \E r \in WeekRequests, s \in Symbols :
           /\ now % 1440 = 0
           /\ active[s] # None \/ NoTradeYet
           /\ OpenTrade(r.signal, s, r.strategy, r.interval)
    /\ UNCHANGED mainVars

WeekCheckExits ==
    /\ \E s \in Symbols : CheckExits(10000000, s)
    /\ UNCHANGED mainVars

WeekEodSweep ==
    /\ \E q \in Quotes({Missing}) : EodSweep(q)
    /\ UNCHANGED mainVars

WeekAdvance ==
    /\ \E t \in WeekTimes :
           /\ akeys # <<>> \/ NoTradeYet
           /\ Advance(t)
    /\ UNCHANGED mainVars

InitWeek == InitAt(At(0, 0))

NextWeek ==
    \/ WeekOpen
    \/ WeekCheckExits
    \/ WeekEodSweep
    \/ WeekAdvance

SpecWeek == InitWeek /\ [][NextWeek]_vars

----------------------------------------------------------------------------
(* SpecHist: MaxCloses trades of one instrument, one per minute *)

\* the latest record of RELIANCE.NS was closed before the present minute
ClosedEarlier ==
    IF history[RELIANCE_NS] = <<>> THEN TRUE
    ELSE history[RELIANCE_NS][1].exit_time.iso < now

HistOpen ==
    /\ active[RELIANCE_NS] = None
    /\ ClosedEarlier
    /\ OpenTrade(BuySignal, RELIANCE_NS, "pro_mtf", "1m")
    /\ UNCHANGED mainVars

HistCheckExits ==
    /\ active[RELIANCE_NS] # None
    /\ CheckExits(10450000, RELIANCE_NS)
    /\ UNCHANGED mainVars

HistGetHistory ==
    /\ GetHistory(RELIANCE_NS)
    /\ UNCHANGED mainVars

HistAdvance ==
    /\ active[RELIANCE_NS] = None
    /\ ~ClosedEarlier
    /\ now + 1 < MaxCloses
    /\ Advance(now + 1)
    /\ UNCHANGED mainVars

InitHist == InitAt(At(0, 0))

NextHist ==
    \/ HistOpen
    \/ HistCheckExits
    \/ HistGetHistory
    \/ HistAdvance

SpecHist == InitHist /\ [][NextHist]_vars

----------------------------------------------------------------------------
(* SpecConf: one trade opened with an RSI from all over 0..100 *)

\* RSI 0, 2.5, 5, ..., 100, values next to 25, 50 and 75, values whose
\* confidence is not a multiple of 0.1, and a signal without an RSI
RsiSamples == {2500 * k : k \in 0..40}
              \cup {24999, 25001, 49999, 50001, 50027, 50028, 62345, 62350,
                    74999, 75001, Missing}

\* a signal of the side type at 100, ATR 2, with the RSI rsi
ConfSignal(type, rsi) ==
    IF type = "BUY"
    THEN Signal("BUY", 10000000, 9800000, 10400000, rsi, 200000,
                Missing, Missing)
    ELSE Signal("SELL", 10000000, 10200000, 9600000, rsi, 200000,
                Missing, Missing)

ConfOpen ==
    /\ \E rsi \in RsiSamples, type \in {"BUY", "SELL"} :
           /\ NoTradeYet
           /\ OpenTrade(ConfSignal(type, rsi), RELIANCE_NS, "pro_mtf", "5m")
    /\ UNCHANGED mainVars

ConfGetActive ==
    /\ GetActive(RELIANCE_NS)
    /\ UNCHANGED mainVars

ConfForceClose ==
    /\ ForceClose(RELIANCE_NS, 10000000, "Manual Close")
    /\ UNCHANGED mainVars

NextConf ==
    \/ ConfOpen
    \/ ConfGetActive
    \/ ConfForceClose

SpecConf == Init /\ [][NextConf]_vars

----------------------------------------------------------------------------
(* SpecStrat: every strategy of the registry applied to 5-minute bar        *)
(* sequences that open flat at 100 and go on with up to MaxTail bars; a     *)
(* signal of the result is handed to open_trade                             *)

\* the shapes of a bar after the opening: flat at 100; down to 99.9; up to
\* 100.2; down to 99.9995
Shapes ==
    { [high |-> 10000000, low |-> 10000000, close |-> 10000000, volume |-> 10],
      [high |-> 10000000, low |->  9990000, close |->  9990000, volume |-> 20],
      [high |-> 10020000, low |->  9990000, close |-> 10020000, volume |-> 30],
      [high |-> 10000000, low |->  9999950, close |->  9999950, volume |-> 10] }

Tails == UNION { [1..n -> Shapes] : n \in 0..MaxTail }

\* the lengths of the flat opening
Openings == {2, 20}

\* n flat bars at price level followed by the bars of tail, 5 minutes apart
BarsOf(n, level, tail) ==
    [i \in 1..(n + Len(tail)) |->
        IF i <= n THEN Bar(5 * i, level, level, level, 10)
        ELSE Bar(5 * i, tail[i - n].high, tail[i - n].low, tail[i - n].close,
                 tail[i - n].volume)]

BarSequences == { BarsOf(n, 10000000, t) : n \in Openings, t \in Tails }

\* the manager as constructed, a strategy key and a DataFrame chosen
InitStrat ==
    /\ active  = [s \in Symbols |-> None]
    /\ akeys   = <<>>
    /\ history = [s \in Symbols |-> <<>>]
    /\ hkeys   = <<>>
    /\ now     = 0
    /\ \E key \in StrategyKeys, df \in BarSequences :
           last = Call("init", key, df, Missing, None)
    /\ InitMain

\* STRATEGIES[key]['fn'](df, ts_fn): the first run on the DataFrame, and
\* the same strategy run again on the same DataFrame
StratRun ==
    /\ last.op \in {"init", "strategy", "strategy again"}
    /\ last' = Call(IF last.op = "init" THEN "strategy" ELSE "strategy again",
                    last.symbol, last.req, Missing,
                    Strategy(last.symbol, last.req))
    /\ UNCHANGED <<active, akeys, history, hkeys, now>>
    /\ UNCHANGED mainVars

\* open_trade with a signal of the list the strategy returned
StratOpen ==
    /\ last.op \in {"strategy", "strategy again"}
    /\ \E i \in 1..Len(last.ret) :
           OpenTrade(last.ret[i], RELIANCE_NS, last.symbol, "5m")
    /\ UNCHANGED mainVars

NextStrat ==
    \/ StratRun
    \/ StratOpen

SpecStrat == InitStrat /\ [][NextStrat]_vars

----------------------------------------------------------------------------
(* main.py: market hours, the WebSocket loop, the chart-data handler *)

\* datetime.astimezone(Europe/London): GMT in the modelled fortnight
AstimezoneLondon(t) == t

\* _MARKET_HOURS (lines 36-41)
MarketNames == {"NSE", "NYSE", "NASDAQ", "LSE"}

MarketHours(name) ==
    CASE name = "NSE" ->
             [tz |-> "IST", oh |-> 9, om |-> 15, ch |-> 15, cm |-> 30]
      [] name \in {"NYSE", "NASDAQ"} ->
             [tz |-> "EST", oh |-> 9, om |-> 30, ch |-> 16, cm |-> 0]
      [] name = "LSE" ->
             [tz |-> "London", oh |-> 8, om |-> 0, ch |-> 16, cm |-> 30]

\* get_open_markets (lines 45-55) at instant t
GetOpenMarkets(t) ==
    { name \in MarketNames :
        LET h     == MarketHours(name)
            local == IF h.tz = "London" THEN AstimezoneLondon(t)
                     ELSE Astimezone(t, h.tz)
        IN  /\ Weekday(local) < 5
            /\ ReplaceHM(local, h.oh, h.om) <= local
            /\ local <= ReplaceHM(local, h.ch, h.cm) }

\* is_symbol_tradeable (lines 57-65); of the names in _CRYPTO_SYMS the
\* model has BTC-USD, and its names that start with ^ are the three indices
IsSymbolTradeable(sym, open_markets) ==
    LET is_nse == IsNseSymbol(sym)
        is_us  == /\ ~is_nse
                  /\ sym.suffix = ""
                  /\ sym.stem \notin {"^NSEI", "^NSEBANK", "^BSESN"}
    IN  \/ sym = BTC_USD
        \/ sym.suffix = "=F"
        \/ is_nse /\ "NSE" \in open_markets
        \/ is_us /\ "NYSE" \in open_markets
        \/ open_markets # {}

\* round(max(1.0, (distance / atr_per_bar) * 1.4), 1) in 0.01 bars
\* (predictor.py lines 22 and 47); Missing when the division raises
\* ZeroDivisionError
BarsEst(distance, atr_per_bar) ==
    IF atr_per_bar.sgn = 0 THEN Missing
    ELSE IF Lt(DivInt(Scale(Div(distance, atr_per_bar), 14), 10), Num(1))
    THEN 100
    ELSE 10 * RoundScaled(DivInt(Scale(Div(distance, atr_per_bar), 14), 10),
                          10, 1000000)

\* atr_per_bar after the test of lines 18-19
AtrPerBar(mean, distance) ==
    IF mean.sgn <= 0 THEN DivInt(distance, 10) ELSE mean

\* a_vals.iloc[-20:].mean()
MeanOfLast20(a_vals) ==
    DivInt(SumRows(a_vals, Max(1, Len(a_vals) - 19), Len(a_vals)),
           Len(a_vals) - Max(1, Len(a_vals) - 19) + 1)

\* estimate_target_time(df, entry, tp, interval)['bars'] (predictor.py
\* lines 11-47) in 0.01 bars; Missing when it raises ZeroDivisionError
EstimateTargetTime(df, entry, tp) ==
    BarsEst(Num(Abs(tp - entry)),
            AtrPerBar(MeanOfLast20(Atr(High(df), Low(df), Close(df), 14)),
                      Num(Abs(tp - entry))))

\* the signal with the estimate main.py stores in it (lines 352-358)
Enriched(signal, df) ==
    [signal EXCEPT !.target_bars =
                       EstimateTargetTime(df, signal.price, signal.tp)]

\* wl_load()[:10]: the first instruments of the watchlist
WatchList == <<RELIANCE_NS, AAPL>>

\* 50 flat bars at 100 and a bar that closes at 99.9, the bar still forming
FormingBar ==
    BarsOf(50, 10000000,
           << [high |-> 10000000, low |-> 9990000, close |-> 9990000,
               volume |-> 20] >>)

\* the same bars one bar later: the bar at 99.9 is closed, the next is flat
ClosedBar ==
    BarsOf(50, 10000000,
           << [high |-> 10000000, low |-> 9990000, close |-> 9990000,
               volume |-> 20],
              [high |-> 9990000, low |-> 9990000, close |-> 9990000,
               volume |-> 10] >>)

\* what get_data(s, "5m", "2d") returns when it does not raise: more than
\* 50 bars (data_fetcher.py lines 23-28)
ScanData == {FormingBar, ClosedBar, BarsOf(51, 10000000, <<>>)}

\* sigs[-1] with the estimate stored in it, None when sigs is empty
LatestOf(sigs, df) ==
    IF sigs = <<>> THEN None ELSE Enriched(sigs[Len(sigs)], df)

\* STRATEGIES['pro_mtf']['fn'](df, ts_fn) and the signal main.py makes of
\* its last element, for the DataFrames of ScanData
ScanSignal == [df \in ScanData |-> LatestOf(StrategyProMtf(df), df)] @@ <<>>

\* prices of a tick: no exit for a SELL from 99.9, and below its target
TickPrices == {9990000, 9988000}

\* Monday 2024-03-04 10:30 and 15:20 in Kolkata
LoopTimes == {At(0, 300), At(0, 590)}

\* the session c with the fields of upd replaced
Session(c, upd) ==
    ws_clients' = [ws_clients EXCEPT
                     ![c] = [f \in DOMAIN @ |->
                                IF f \in DOMAIN upd THEN upd[f] ELSE @[f]]]

\* where the loop goes after the tick block and after the scan block
AfterTick(n) == IF n % 12 = 0 THEN "scan" ELSE "sleep"
AfterScan(n) == IF n % 60 = 0 THEN "status" ELSE "sleep"

\* ws_endpoint up to the loop (lines 231-257)
WsConnect(c) ==
    /\ ws_clients[c].pc = "closed"
    /\ Session(c, [pc |-> "tick"])
    /\ UNCHANGED <<tmVars, last_signal_key, signal_history, opened, pool,
                   bar_state>>

\* recv_msgs (lines 245-255): the first subscribe message of the session
WsSubscribe(c, s) ==
    /\ ws_clients[c].pc \notin {"closed", "gone"}
    /\ ws_clients[c].sym = None
    /\ Session(c, [sym |-> s])
    /\ UNCHANGED <<tmVars, last_signal_key, signal_history, opened, pool,
                   bar_state>>

\* the price tick of one pass of the loop (lines 261-333): check_exits
\* for the subscribed symbol when it is tradeable and a price came back;
\* the bar the tick aggregates, which nothing else reads, is followed in
\* BarTick
WsTick(c) ==
    LET w == ws_clients[c]
        n == (w.tick_count + 1) % 60
    IN  /\ w.pc = "tick"
        /\ \/ /\ w.sym # None
              /\ IsSymbolTradeable(w.sym, GetOpenMarkets(now))
              /\ \E price \in TickPrices : CheckExits(price, w.sym)
              /\ Session(c, [pc |-> AfterTick(n), tick_count |-> n,
                             i |-> 1, checked |-> {w.sym}])
           \/ /\ UNCHANGED tmVars
              /\ Session(c, [pc |-> AfterTick(n), tick_count |-> n,
                             i |-> 1, checked |-> {}])
        /\ UNCHANGED <<last_signal_key, signal_history, opened, pool,
                       bar_state>>

\* signal_history.insert(0, payload) with the cap of 200 (lines 360-361)
SignalHistoryInsert(payload) ==
    IF Len(signal_history) + 1 > 200
    THEN <<payload>> \o SubSeq(signal_history, 1, Len(signal_history) - 1)
    ELSE <<payload>> \o signal_history

\* the scan of the instrument s when the strategy returned signals, the
\* last of them sig, with a new key (lines 345-366)
ScanFound(c, s, next, sig, last_bar) ==
    /\ sig # None
    /\ last_signal_key[s] # sig.time
    /\ last_signal_key' = [last_signal_key EXCEPT ![s] = sig.time]
    /\ signal_history' =
           SignalHistoryInsert([signal |-> sig, symbol |-> s,
                                last_bar |-> last_bar])
    /\ IF active[s] = None
       THEN /\ OpenTrade(sig, s, "pro_mtf", "5m")
            /\ opened' = [opened EXCEPT ![s] = @ + 1]
       ELSE /\ GetActive(s)
            /\ UNCHANGED opened
    /\ Session(c, next @@ [sent |-> [signal |-> sig, symbol |-> s,
                                     last_bar |-> last_bar]])

\* where the scan goes after the instrument i of the watchlist
ScanNext(w) ==
    IF w.i = Len(WatchList)
    THEN [pc |-> AfterScan(w.tick_count), i |-> 1]
    ELSE [pc |-> "scan", i |-> w.i + 1]

\* one instrument of the signal scan (lines 336-366)
WsScanItem(c) ==
    /\ ws_clients[c].pc = "scan"
    /\ UNCHANGED <<pool, bar_state>>
    /\ \/ /\ Session(c, ScanNext(ws_clients[c]))
          /\ UNCHANGED <<tmVars, last_signal_key, signal_history, opened>>
       \/ /\ IsSymbolTradeable(WatchList[ws_clients[c].i],
                                GetOpenMarkets(now))
          /\ \E df \in ScanData :
               ScanFound(c, WatchList[ws_clients[c].i],
                         ScanNext(ws_clients[c]), ScanSignal[df],
                         df[Len(df)].time)

\* the status message and eod_sweep of every 60th pass (lines 369-378)
WsStatus(c) ==
    /\ ws_clients[c].pc = "status"
    /\ \E q \in Quotes({Missing}) : EodSweep(q)
    /\ Session(c, [pc |-> "sleep"])
    /\ UNCHANGED <<last_signal_key, signal_history, opened, pool, bar_state>>

\* asyncio.sleep(5) (line 380), then the next pass
WsSleep(c) ==
    /\ ws_clients[c].pc = "sleep"
    /\ Session(c, [pc |-> "tick"])
    /\ UNCHANGED <<tmVars, last_signal_key, signal_history, opened, pool,
                   bar_state>>

\* the session is cancelled or its client disconnects while the loop waits
\* in send_json or sleep (lines 382-389)
WsTeardown(c) ==
    /\ ws_clients[c].pc \notin {"closed", "gone"}
    /\ Session(c, [pc |-> "gone"])
    /\ UNCHANGED <<tmVars, last_signal_key, signal_history, opened, pool,
                   bar_state>>

LoopAdvance ==
    /\ \E t \in LoopTimes : Advance(t)
    /\ UNCHANGED mainVars

LoopConnect   == \E c \in Clients : WsConnect(c)
LoopSubscribe == \E c \in Clients, s \in {RELIANCE_NS, AAPL} : WsSubscribe(c, s)
LoopTick      == \E c \in Clients : WsTick(c)
LoopScanItem  == \E c \in Clients : WsScanItem(c)
LoopStatus    == \E c \in Clients : WsStatus(c)
LoopSleep     == \E c \in Clients : WsSleep(c)
LoopTeardown  == \E c \in Clients : WsTeardown(c)

InitLoop == InitAt(At(0, 300))

NextLoop ==
    \/ LoopConnect
    \/ LoopSubscribe
    \/ LoopTick
    \/ LoopScanItem
    \/ LoopStatus
    \/ LoopSleep
    \/ LoopTeardown
    \/ LoopAdvance

SpecLoop == InitLoop /\ [][NextLoop]_vars

-----------------------------------------------------------------------------
(* SpecRace: api_chartdata and api_close_trade are plain functions, which    *)
(* the server runs on the threads of its pool while the loop of ws_endpoint  *)
(* runs on the event loop; nothing locks the manager, so a thread may be     *)
(* suspended between the test of open_trade (line 80) and its store (line    *)
(* 109)                                                                      *)

\* the instrument the handlers of SpecRace are called for
RaceSymbols == {RELIANCE_NS}

\* GET /api/chartdata requests: symbol, interval, strategy and the bars
\* get_data returns for them
ChartRequests ==
    [symbol : RaceSymbols,
     interval : {"5m"}, strategy : {"pro_mtf"}, df : {FormingBar}]
    \cup
    [symbol : RaceSymbols,
     interval : {"15m"}, strategy : {"macd"}, df : {FormingBar}]

\* fn(df, ts) of api_chartdata for the requests, and latest with the
\* estimate stored in it (lines 176-183)
ChartLatest ==
    [r \in ChartRequests |-> LatestOf(Strategy(r.strategy, r.df), r.df)]
        @@ <<>>

\* api_chartdata on the thread w up to the test of open_trade: get_active
\* returns None (line 185), symbol is not in _active (line 80), and the
\* trade dict is built (lines 83-107)
ChartOpenWith(w, r, latest) ==
    /\ latest # None
    /\ latest.target_bars # Missing
    /\ active[r.symbol] = None
    /\ opened[r.symbol] < MaxTrades
    /\ pool' = [pool EXCEPT
                  ![w] = [pc     |-> "store",
                          symbol |-> r.symbol,
                          req    |-> Request(latest, r.strategy, r.interval),
                          trade  |-> NewTrade(latest, r.symbol, r.strategy,
                                              r.interval, now)]]

ChartOpenCheck(w) ==
    /\ pool[w].pc = "idle"
    /\ \E r \in ChartRequests : ChartOpenWith(w, r, ChartLatest[r])
    /\ UNCHANGED <<tmVars, ws_clients, last_signal_key, signal_history,
                   opened, bar_state>>

\* the thread w goes on: self._active[symbol] = trade; return trade
\* (lines 109-110)
ChartOpenStore(w) ==
    LET p == pool[w]
    IN  /\ p.pc = "store"
        /\ Install([Manager EXCEPT
                       !.active = [active EXCEPT ![p.symbol] = p.trade],
                       !.akeys  = WithKey(akeys, p.symbol)],
                   "open_trade", p.symbol, p.req, Missing, p.trade)
        /\ opened' = [opened EXCEPT ![p.symbol] = @ + 1]
        /\ pool' = [pool EXCEPT ![w] = Idle]
        /\ UNCHANGED <<ws_clients, last_signal_key, signal_history, bar_state>>

\* the price tick of a session subscribed to the symbol (lines 261-333)
RaceTick ==
    /\ \E s \in RaceSymbols, price \in TickPrices : CheckExits(price, s)
    /\ UNCHANGED mainVars

\* api_close_trade (lines 118-134): 404 without an Active trade, else
\* force_close with the price of the request
RaceClose ==
    /\ \E s \in RaceSymbols, price \in TickPrices :
         IF active[s] = None THEN GetActive(s)
         ELSE ForceClose(s, price, "Manual Close")
    /\ UNCHANGED mainVars

RaceChartCheck == \E w \in Workers : ChartOpenCheck(w)
RaceChartStore == \E w \in Workers : ChartOpenStore(w)

InitRace == InitAt(At(0, 300))

NextRace ==
    \/ RaceChartCheck
    \/ RaceChartStore
    \/ RaceTick
    \/ RaceClose

SpecRace == InitRace /\ [][NextRace]_vars

----------------------------------------------------------------------------
(* SpecLive: a fair stream of ticks while the clock runs minute by minute  *)
(* from Monday 00:00 UTC, hours before the cutoff of either market          *)

LiveSymbols == {RELIANCE_NS, AAPL}

\* expected to take 5 minutes (5 bars of 1m) and 2.9 minutes (1.44 of 2m)
LiveRequests == { Request(BuySignal, "pro_mtf", "1m"),
                  Request(SellSignal, "vwap_ema", "2m") }

\* ticks at 100 and at 104.5
LivePrices == {10000000, 10450000}

\* an instrument gets one trade, opened only while the clock of the model
\* still has the minutes the trade is expected to take
LiveOpen ==
    /\ \E r \in LiveRequests, s \in LiveSymbols :
           /\ active[s] # None
              \/ /\ history[s] = <<>>
                 /\ NewTrade(r.signal, s, r.strategy, r.interval, now)
                       .expected_time_minutes <= 10 * (MaxMinute - now)
           /\ OpenTrade(r.signal, s, r.strategy, r.interval)
    /\ UNCHANGED mainVars

\* a tick of the instrument s
LiveTick(s) ==
    /\ \E p \in LivePrices : CheckExits(p, s)
    /\ UNCHANGED mainVars

LiveCheckExits == \E s \in LiveSymbols : LiveTick(s)

LiveAdvance ==
    /\ now < MaxMinute /\ Advance(now + 1)
    /\ UNCHANGED mainVars

NextLive ==
    \/ LiveOpen
    \/ LiveCheckExits
    \/ LiveAdvance

\* the clock advances, and every instrument keeps getting ticks
LiveFairness ==
    /\ WF_vars(LiveAdvance)
    /\ \A s \in LiveSymbols : WF_vars(LiveTick(s))

SpecLive == InitAt(0) /\ [][NextLive]_vars /\ LiveFairness

----------------------------------------------------------------------------
(* Properties *)

\* the step is a call of the operation op (only Advance moves the clock, and
\* every call records its own name in last)
IsCall(op) == now' = now /\ last'.op = op

\* C1: open_trade called for an instrument that has an Active trade returns
\* None and leaves the stored Active trade (every field of it) and the
\* history of every instrument as they were: the new signal is dropped.
C1_OpenWhileActiveIsNoOp ==
    [][ (IsCall("open_trade") /\ active[last'.symbol] # None)
        => /\ last'.ret = None
           /\ active' = active
           /\ akeys' = akeys
           /\ history' = history ]_vars

\* C1 witness: an open_trade with a signal of the other side was dropped for
\* an instrument that has an Active trade and a closed one
C1_Witness ==
    /\ last.op = "open_trade"
    /\ last.ret = None
    /\ active[last.symbol] # None
    /\ active[last.symbol].side # last.req.signal.type
    /\ history[last.symbol] # <<>>

\* the Target condition of a trade at a tick price
TargetHolds(trade, price) ==
    \/ trade.side = "BUY"  /\ price >= trade.target_price
    \/ trade.side = "SELL" /\ price <= trade.target_price

\* the Stop condition of a trade at a tick price
StopHolds(trade, price) ==
    \/ trade.side = "BUY"  /\ price <= trade.stop_loss
    \/ trade.side = "SELL" /\ price >= trade.stop_loss

\* the Time condition of a trade at the instant t (minutes against 0.1 min)
TimeHolds(trade, t) ==
    10 * (t - trade.entry_time_dt) >= trade.expected_time_minutes

\* the End-of-Day condition of an instrument at the instant t
EodHolds(symbol, t) == CheckEod(symbol, t) = "EOD Exit"

\* the reason a call returned: that of its exit event, NoReason for None
ReasonOf(ret) == IF ret = None THEN NoReason ELSE ret.exit_reason

\* C2: check_exits on an Active trade whose Target condition holds at the
\* tick price closes the trade with reason 'Target Hit', whatever the Stop,
\* Time and End-of-Day conditions are.
C2_TargetTakesPrecedence ==
    [][ (IsCall("check_exits") /\ active[last'.symbol] # None
            /\ TargetHolds(active[last'.symbol], last'.price))
        => /\ ReasonOf(last'.ret) = "Target Hit"
           /\ active'[last'.symbol] = None ]_vars

\* C2 witness: a trade was closed with 'Target Hit' by a tick at which its
\* Stop, Time and End-of-Day conditions held as well
C2_Witness ==
    /\ last.op = "check_exits"
    /\ ReasonOf(last.ret) = "Target Hit"
    /\ last.ret.side = "BUY"
    /\ last.price <= last.ret.stop_loss
    /\ last.ret.duration_minutes >= 50
    /\ last.ret.timeframe = "3m"
    /\ EodHolds(last.symbol, now)

\* C3: check_exits on an Active trade takes the first of Target, Stop, Time,
\* End-of-Day that holds: 'Stop Hit' only without Target, 'Time Exit' only
\* without Target and Stop, 'EOD Exit' only without Target, Stop and Time;
\* it returns None, the trade staying Active, exactly when none holds.
C3_StrictExitOrder ==
    [][ (IsCall("check_exits") /\ active[last'.symbol] # None)
        => LET trade  == active[last'.symbol]
               price  == last'.price
               target == TargetHolds(trade, price)
               stop   == StopHolds(trade, price)
               time   == TimeHolds(trade, now)
               eod    == EodHolds(last'.symbol, now)
               reason == ReasonOf(last'.ret)
           IN  /\ reason \in {"Target Hit", "Stop Hit", "Time Exit",
                              "EOD Exit", NoReason}
               /\ reason = "Target Hit" <=> target
               /\ reason = "Stop Hit"   <=> (~target /\ stop)
               /\ reason = "Time Exit"  <=> (~target /\ ~stop /\ time)
               /\ reason = "EOD Exit"   <=> (~target /\ ~stop /\ ~time /\ eod)
               /\ last'.ret = None <=> (~target /\ ~stop /\ ~time /\ ~eod)
               /\ last'.ret = None => active' = active
               /\ last'.ret # None => active'[last'.symbol] = None ]_vars

\* C3 witness: a trade was closed with 'Time Exit' by a tick at which its
\* End-of-Day condition held too, and neither Target nor Stop
C3_Witness ==
    /\ last.op = "check_exits"
    /\ ReasonOf(last.ret) = "Time Exit"
    /\ EodHolds(last.symbol, now)
    /\ ~TargetHolds(last.ret, last.price)
    /\ ~StopHolds(last.ret, last.price)

\* the step closed a trade of instrument s through check_exits or force_close
ClosedByCall(s) ==
    /\ now' = now
    /\ last'.op \in {"check_exits", "force_close"}
    /\ last'.symbol = s
    /\ last'.ret # None

\* x is a multiple of 10 points and no other multiple is nearer to y
Nearest4(x, y) == x % 10 = 0 /\ 2 * Abs(x - y) <= 10

\* pct (in 0.01 %) is a hundredth nearest to pnl / entry x 100
NearestPct(pct, pnl, entry) ==
    2 * Abs(pct * (entry \div 10) - (pnl \div 10) * 10000) <= entry \div 10

\* the difference the claim names: exit - entry for a BUY, entry - exit
\* for a SELL
Gain(side, entry, exit) == IF side = "BUY" THEN exit - entry ELSE entry - exit

\* C4 as stated: whenever a trade is closed, the recorded P&L is exactly
\* (exit - entry) for a BUY and (entry - exit) for a SELL, exit being the
\* price passed in, and the recorded P&L% is exactly P&L / entry x 100.
C4_ExactPnl ==
    [][ \A s \in Symbols : ClosedByCall(s)
        => LET ev == last'.ret
           IN  /\ ev.pnl = Gain(ev.side, ev.entry_price, last'.price)
               /\ ev.entry_price # 0
                    => ev.pnl_pct * (ev.entry_price \div 10)
                         = (ev.pnl \div 10) * 10000 ]_vars

\* C4 amended: whenever a trade is closed, the recorded P&L is (exit - entry)
\* for a BUY and (entry - exit) for a SELL rounded to 4 decimals, exit being
\* the price passed in and not the target or stop level, and the recorded
\* P&L% is P&L / entry x 100 rounded to 2 decimals, or 0 when the entry price
\* is 0; a BUY with entry 100, stop 98, target 104 closed by a tick at 104.5
\* yields 'Target Hit', P&L 4.5, P&L% 4.5.
C4_RoundedPnl ==
    [][ \A s \in Symbols : ClosedByCall(s)
        => LET ev == last'.ret
           IN  /\ Nearest4(ev.pnl, Gain(ev.side, ev.entry_price, last'.price))
               /\ ev.entry_price = active[s].entry_price
               /\ ev.entry_price # 0
                    => NearestPct(ev.pnl_pct, ev.pnl, ev.entry_price)
               /\ ev.entry_price = 0 => ev.pnl_pct = 0
               /\ ( /\ last'.op = "check_exits"
                    /\ last'.price = 10450000
                    /\ ev.side = "BUY"
                    /\ ev.entry_price = 10000000
                    /\ ev.stop_loss = 9800000
                    /\ ev.target_price = 10400000 )
                    => /\ ev.exit_reason = "Target Hit"
                       /\ ev.pnl = 450000
                       /\ ev.pnl_pct = 450 ]_vars

\* C4 witness: the BUY at 100 with stop 98 and target 104 was closed by a
\* tick at 104.5 with 'Target Hit', P&L 4.5 and P&L% 4.5
C4_Witness ==
    /\ last.op = "check_exits"
    /\ last.price = 10450000
    /\ last.ret # None
    /\ last.ret.side = "BUY"
    /\ last.ret.entry_price = 10000000
    /\ last.ret.stop_loss = 9800000
    /\ last.ret.target_price = 10400000
    /\ last.ret.exit_reason = "Target Hit"
    /\ last.ret.pnl = 450000
    /\ last.ret.pnl_pct = 450

\* the exit events a call returned
EventsOf(ret) ==
    IF ret = None THEN {}
    ELSE IF "events" \in DOMAIN ret THEN {ret.events[i] : i \in 1..Len(ret.events)}
    ELSE IF "exit_reason" \in DOMAIN ret THEN {ret}
    ELSE {}

\* ev is the closing record of the Active trade tr
RecordOf(ev, tr) ==
    /\ ev.type = "exit"
    /\ ev.symbol = tr.symbol
    /\ ev.side = tr.side
    /\ ev.strategy = tr.strategy
    /\ ev.timeframe = tr.timeframe
    /\ ev.entry_price = tr.entry_price
    /\ ev.target_price = tr.target_price
    /\ ev.stop_loss = tr.stop_loss
    /\ ev.entry_time = tr.entry_time
    /\ ev.confidence = tr.confidence

\* hist with ev put in front, the record beyond the 20th dropped
Prepended(ev, hist) ==
    <<ev>> \o (IF Len(hist) >= 20 THEN SubSeq(hist, 1, 19) ELSE hist)

\* C5: every close of an Active trade, through check_exits, force_close or
\* eod_sweep, clears the instrument's Active slot and in the same step puts
\* exactly one Closed Trade Record of that trade at the front of that
\* instrument's history; the call returns that record, a history changes in
\* no other way, and get_active for the instrument then returns None.
C5_CloseClearsAndRecords ==
    [][ \A s \in Symbols :
          LET closed == active[s] # None /\ active'[s] # active[s]
          IN  /\ closed =>
                    /\ active'[s] = None
                    /\ last'.op \in {"check_exits", "force_close", "eod_sweep"}
                    /\ history'[s] = Prepended(history'[s][1], history[s])
                    /\ RecordOf(history'[s][1], active[s])
                    /\ history'[s][1] \in EventsOf(last'.ret)
              /\ history'[s] # history[s] => closed
              /\ \A ev \in EventsOf(last'.ret) :
                    (now' = now /\ last'.op # "get_history" /\ ev.symbol = s)
                        => closed
              /\ (IsCall("get_active") /\ last'.symbol = s /\ active[s] = None)
                    => last'.ret = None ]_vars

\* C5 witness: force_close has closed a trade of an instrument that had a
\* closed trade before; the slot is empty and the returned record is the
\* first of two
C5_Witness ==
    /\ last.op = "force_close"
    /\ last.ret # None
    /\ active[last.symbol] = None
    /\ Len(history[last.symbol]) = 2
    /\ history[last.symbol][1] = last.ret
    /\ history[last.symbol][2] # last.ret

\* C6: no history holds more than 20 Closed Trade Records, and a close that
\* finds 20 records drops the oldest one (the last of the list, closed before
\* all the others) and keeps the other 19 behind the new record.
C6_HistoryCapDropsOldest ==
    [][ \A s \in Symbols :
          /\ Len(history'[s]) <= 20
          /\ (history'[s] # history[s] /\ Len(history[s]) = 20) =>
                /\ history'[s] = <<history'[s][1]>> \o SubSeq(history[s], 1, 19)
                /\ \A i \in 1..20 :
                      history'[s][i].exit_time.iso > history[s][20].exit_time.iso
          /\ (history'[s] # history[s] /\ Len(history[s]) < 20) =>
                history'[s] = <<history'[s][1]>> \o history[s] ]_vars

\* C6 witness: after the 21st close the history holds the records of the
\* closes of minutes 20 down to 1; that of minute 0 is gone
C6_Witness ==
    /\ Len(history[RELIANCE_NS]) = 20
    /\ history[RELIANCE_NS][1].exit_time.iso = 20
    /\ history[RELIANCE_NS][20].exit_time.iso = 1

\* C7: get_history(instrument) returns the Closed Trade Records most recent
\* first: no record of the list was closed before a record behind it.
C7_HistoryMostRecentFirst ==
    (last.op = "get_history" /\ last.symbol # None) =>
        \A i, j \in 1..Len(last.ret.list) :
            i < j => last.ret.list[i].exit_time.iso >= last.ret.list[j].exit_time.iso

\* C8: check_exits, force_close and get_active called for an instrument
\* without an Active trade return None and leave every Active slot and every
\* history as they were.
C8_NoTradeIsNoOp ==
    [][ ( /\ now' = now
          /\ last'.op \in {"check_exits", "force_close", "get_active"}
          /\ active[last'.symbol] = None )
        => /\ last'.ret = None
           /\ UNCHANGED <<active, akeys, history, hkeys>> ]_vars

\* C8 witness: force_close returned None for an instrument without an Active
\* trade while the other instrument had one
C8_Witness ==
    /\ last.op = "force_close"
    /\ last.ret = None
    /\ active[last.symbol] = None
    /\ history[last.symbol] # <<>>
    /\ \E s \in Symbols : active[s] # None

\* the NSE-style instruments of the model: .NS, .BO, ^NSEI, ^NSEBANK, ^BSESN
NseStyle == {RELIANCE_NS, TCS_BO, NSEI, NSEBANK, BSESN}

\* the instant t is, on Kolkata's clock (UTC+5:30), a Monday to Friday at or
\* after 15:20 (day 0 of the model is a Monday)
KolkataWeekdayAfterCutoff(t) ==
    /\ ((t + 330) \div 1440) % 7 \in {0, 1, 2, 3, 4}
    /\ (t + 330) % 1440 >= 15 * 60 + 20

\* C9: for an NSE-style instrument the End-of-Day condition holds exactly when
\* Kolkata's local time is on a Monday to Friday at or after 15:20: a
\* check_exits that finds no Target, Stop or Time condition closes the trade
\* with 'EOD Exit' then and only then, and so does eod_sweep; on Saturday and
\* Sunday neither does.
C9_NseEodOnWeekdaysAfterCutoff ==
    [][ \A s \in NseStyle :
          /\ ( /\ IsCall("check_exits") /\ last'.symbol = s
               /\ active[s] # None
               /\ ~TargetHolds(active[s], last'.price)
               /\ ~StopHolds(active[s], last'.price)
               /\ ~TimeHolds(active[s], now) )
             => ( ReasonOf(last'.ret) = "EOD Exit"
                    <=> KolkataWeekdayAfterCutoff(now) )
          /\ (IsCall("eod_sweep") /\ active[s] # None)
             => /\ active'[s] = None <=> KolkataWeekdayAfterCutoff(now)
                /\ active'[s] = None => history'[s][1].exit_reason = "EOD Exit"
          /\ \A i \in 1..Len(history'[s]) :
                history'[s][i].exit_reason = "EOD Exit"
                    => KolkataWeekdayAfterCutoff(history'[s][i].exit_time.iso) ]_vars

\* C9 witness: check_exits closed the trade of an NSE-style instrument with
\* 'EOD Exit' at 15:20 Kolkata time sharp
C9_Witness ==
    /\ last.op = "check_exits"
    /\ last.symbol \in NseStyle
    /\ ReasonOf(last.ret) = "EOD Exit"
    /\ (now + 330) % 1440 = 15 * 60 + 20

\* the instruments of the model whose home market is neither NSE nor NYSE:
\* a crypto pair and an LSE share
NoKnownMarket == {BTC_USD, VOD_L}

\* C10: an instrument whose home market is neither NSE-style nor NYSE-style
\* is never closed with 'EOD Exit'.
C10_NoEodForUnknownMarket ==
    \A s \in NoKnownMarket :
        \A i \in 1..Len(history[s]) : history[s][i].exit_reason # "EOD Exit"


\* C11: eod_sweep closes exactly the Active trades whose instrument's
\* End-of-Day condition holds at the instant of the sweep, each with reason
\* 'EOD Exit' and a record of that trade at the front of its history; every
\* other Active trade and every other history stays as it was.  A trade
\* whose price lookup yields nothing is closed at its entry price, with P&L
\* and P&L% 0; one whose lookup yields a price is closed at that price.
C11_EodSweepClosesExactlyDue ==
    [][ IsCall("eod_sweep") =>
          \A s \in Symbols :
             IF active[s] # None /\ EodHolds(s, now)
             THEN LET ev == history'[s][1]
                  IN  /\ active'[s] = None
                      /\ history'[s] = Prepended(ev, history[s])
                      /\ RecordOf(ev, active[s])
                      /\ ev.exit_reason = "EOD Exit"
                      /\ ev \in EventsOf(last'.ret)
                      /\ IF Truthy(last'.req[s])
                         THEN ev.exit_price = Round4(last'.req[s])
                         ELSE /\ ev.exit_price = active[s].entry_price
                              /\ ev.pnl = 0
                              /\ ev.pnl_pct = 0
             ELSE /\ active'[s] = active[s]
                  /\ history'[s] = history[s] ]_vars

\* C11 witness: a sweep at 15:20 in Kolkata whose lookups yielded nothing
\* has closed the trade of RELIANCE.NS at its entry price and has left the
\* trade of AAPL Active
C11_Witness ==
    /\ last.op = "eod_sweep"
    /\ RELIANCE_NS \in DOMAIN last.req
    /\ last.req[RELIANCE_NS] = Missing
    /\ Len(last.ret.events) = 1
    /\ last.ret.events[1].symbol = RELIANCE_NS
    /\ last.ret.events[1].exit_price = last.ret.events[1].entry_price
    /\ last.ret.events[1].pnl = 0
    /\ active[RELIANCE_NS] = None
    /\ active[AAPL] # None

\* C12: force_close on an instrument with an Active trade closes it,
\* whether or not its Target, Stop, Time or End-of-Day condition holds: the
\* slot is cleared, the record of that trade is put at the front of the
\* instrument's history and returned, its reason is the supplied reason, its
\* exit price the supplied price (to 4 decimals), and its P&L and P&L% are
\* computed from that price as for a close by check_exits.
C12_ForceCloseAlwaysCloses ==
    [][ (IsCall("force_close") /\ active[last'.symbol] # None)
        => LET s  == last'.symbol
               ev == last'.ret
           IN  /\ ev # None
               /\ active'[s] = None
               /\ s \notin KeySet(akeys')
               /\ history'[s] = Prepended(ev, history[s])
               /\ RecordOf(ev, active[s])
               /\ ev.exit_reason = last'.req.reason
               /\ Nearest4(ev.exit_price, last'.price)
               /\ Nearest4(ev.pnl, Gain(ev.side, ev.entry_price, last'.price))
               /\ ev.entry_price # 0
                    => NearestPct(ev.pnl_pct, ev.pnl, ev.entry_price)
               /\ ev.entry_price = 0 => ev.pnl_pct = 0 ]_vars

\* C12 witness: force_close with the reason 'Risk Limit' has closed, at 100
\* and with P&L 0, a BUY entered at 100 in the same minute, before the
\* cutoff of its market: none of the four exit conditions held
C12_Witness ==
    /\ last.op = "force_close"
    /\ last.ret # None
    /\ last.ret.exit_reason = "Risk Limit"
    /\ last.ret.side = "BUY"
    /\ last.ret.stop_loss < last.price
    /\ last.price < last.ret.target_price
    /\ last.ret.exit_price = last.price
    /\ last.ret.pnl = 0
    /\ last.ret.duration_minutes = 0
    /\ ~EodHolds(last.symbol, now)
    /\ active[last.symbol] = None
    /\ history[last.symbol] = <<last.ret>>

\* the RSI distance of the claim in 0.001: max(0, RSI - 50) for a BUY,
\* max(0, 50 - RSI) for a SELL, the RSI of a signal without one being 50
RsiDistance(signal) ==
    LET rsi == IF signal.rsi = Missing THEN 50000 ELSE signal.rsi
    IN  IF signal.type = "BUY"
        THEN (IF rsi > 50000 THEN rsi - 50000 ELSE 0)
        ELSE (IF rsi < 50000 THEN 50000 - rsi ELSE 0)

\* min(95, 50 + 1.8 x d) in 0.0001, d in 0.001
CappedScore(d) == IF 500000 + 18 * d > 950000 THEN 950000 ELSE 500000 + 18 * d

\* C13 as stated: the confidence of every opened trade is exactly
\* min(95, 50 + 1.8 x d), d the RSI distance of its signal, and lies in
\* [50, 95].
C13_ExactConfidence ==
    [][ (IsCall("open_trade") /\ last'.ret # None)
        => /\ 1000 * last'.ret.confidence
                = CappedScore(RsiDistance(last'.req.signal))
           /\ last'.ret.confidence >= 500
           /\ last'.ret.confidence <= 950 ]_vars

\* C13 amended: the confidence of every opened trade is min(95, 50 + 1.8 x d)
\* rounded to 1 decimal, d = max(0, RSI - 50) for a BUY and max(0, 50 - RSI)
\* for a SELL; for every RSI in 0..100 and either side it lies in [50, 95],
\* and get_active reports the confidence the trade was opened with.
C13_RoundedConfidence ==
    [][ /\ (IsCall("open_trade") /\ last'.ret # None)
            => /\ 2 * Abs(1000 * last'.ret.confidence
                            - CappedScore(RsiDistance(last'.req.signal)))
                      <= 1000
               /\ last'.ret.confidence >= 500
               /\ last'.ret.confidence <= 950
               /\ active'[last'.symbol].confidence = last'.ret.confidence
        /\ (IsCall("get_active") /\ last'.ret # None)
            => last'.ret.confidence = active[last'.symbol].confidence ]_vars

\* C13 witness: a SELL opened with RSI 24.999 has the confidence 95, and
\* get_active reports it
C13_Witness ==
    /\ last.op = "get_active"
    /\ last.ret # None
    /\ last.ret.side = "SELL"
    /\ last.ret.rsi = 2500
    /\ last.ret.confidence = 950
    /\ active[RELIANCE_NS].confidence = 950

\* C14: with ticks that keep coming for the instrument while the clock
\* advances, every Active trade is eventually closed; a check_exits at which
\* the elapsed minutes since entry have reached expected_time_minutes closes
\* the trade, with 'Time Exit' unless its Target or Stop condition holds at
\* the tick price (then with 'Target Hit' or 'Stop Hit').
C14_EventuallyClosed ==
    /\ \A s \in LiveSymbols : (active[s] # None) ~> (active[s] = None)
    /\ [][ (IsCall("check_exits") /\ active[last'.symbol] # None
              /\ TimeHolds(active[last'.symbol], now))
           => LET tr == active[last'.symbol]
              IN  /\ active'[last'.symbol] = None
                  /\ ReasonOf(last'.ret) =
                        IF TargetHolds(tr, last'.price) THEN "Target Hit"
                        ELSE IF StopHolds(tr, last'.price) THEN "Stop Hit"
                        ELSE "Time Exit" ]_vars

\* C14 witness: a tick at the entry price has closed with 'Time Exit' the
\* trade that was expected to take 2.9 minutes, 3 minutes after its entry
C14_Witness ==
    /\ last.op = "check_exits"
    /\ last.ret # None
    /\ last.ret.exit_reason = "Time Exit"
    /\ last.ret.exit_price = last.ret.entry_price
    /\ last.ret.duration_minutes = 30
    /\ active[last.symbol] = None

----------------------------------------------------------------------------
(* C19, C20: the signals of the strategies *)

\* the row of a DataFrame whose index is time
RowOf(df, time) == CHOOSE i \in 1..Len(df) : df[i].time = time

\* C19: for every strategy of the registry and every bar sequence, at most
\* one signal is emitted per bar, the signals come in strictly increasing
\* bar order, no two signals of the same side sit on consecutive bars, and
\* running the strategy again on the same sequence returns the same list.
C19_OneSignalPerTransition ==
    /\ [](last.op \in {"strategy", "strategy again"} =>
             \A i \in 1..Len(last.ret), j \in 1..Len(last.ret) :
                 i < j =>
                     /\ last.ret[i].time \in {last.req[k].time :
                                                  k \in 1..Len(last.req)}
                     /\ last.ret[i].time < last.ret[j].time
                     /\ last.ret[i].type = last.ret[j].type =>
                            RowOf(last.req, last.ret[j].time)
                                > RowOf(last.req, last.ret[i].time) + 1)
    /\ [][last'.op = "strategy again" =>
             /\ last'.req = last.req
             /\ last'.ret = last.ret]_vars

\* a strategy has returned two signals of one side and one of the other
\* between them, and has been run again
C19_Witness ==
    /\ last.op = "strategy again"
    /\ Len(last.ret) >= 3
    /\ \E i \in 1..Len(last.ret), j \in 1..Len(last.ret) :
           i < j /\ last.ret[i].type = last.ret[j].type

\* C20: every signal a strategy emits over a well-formed bar sequence has
\* a stop-loss price that differs from its entry price, so no trade is
\* opened with entry = stop = target.
C20_SignalHasRisk ==
    /\ last.op \in {"strategy", "strategy again"} =>
           \A i \in 1..Len(last.ret) : last.ret[i].sl # last.ret[i].price
    /\ (last.op = "open_trade" /\ last.ret # None) =>
           ~(last.ret.entry_price = last.ret.sl
             /\ last.ret.entry_price = last.ret.tp)

-----------------------------------------------------------------------------
(* C15..C18: the live loop and the handlers of main.py *)

\* the session c has just run the price tick block of a pass
TickDone(c) == ws_clients[c].pc = "tick" /\ ws_clients'[c].pc \notin {"tick", "gone"}

\* C15: in the live loop check_exits is invoked on every price tick for
\* every instrument that has an Active trade, and a trade is opened only in
\* the scan block, which a pass runs after its price tick block.
C15_CheckExitsOnEveryTick ==
    [][ \A c \in Clients :
          /\ TickDone(c) =>
                \A s \in Symbols :
                    active[s] # None => s \in ws_clients'[c].checked
          /\ (last'.op = "open_trade" /\ active' # active) =>
                ws_clients[c].pc = "scan" ]_vars

\* C17: whatever the point at which a session is torn down, an instrument
\* is either Active with no closing record of that trade or absent, with
\* exactly one closing record for each trade it held: the trades opened for
\* it are its closing records plus its Active trade.
C17_NoStraddledInstrument ==
    \A s \in Symbols :
        /\ Len(history[s]) <= 20
        /\ opened[s] = Len(history[s]) + (IF active[s] # None THEN 1 ELSE 0)

\* C17 witness: the session is torn down in the middle of a scan, after a
\* tick closed the trade of one instrument and while the trade of the other
\* is Active
C17_Witness ==
    /\ ws_clients[1].pc = "gone"
    /\ ws_clients[1].i = 2
    /\ active[AAPL] # None
    /\ opened[AAPL] = 1
    /\ history[AAPL] = <<>>
    /\ active[RELIANCE_NS] = None
    /\ opened[RELIANCE_NS] = 1
    /\ Len(history[RELIANCE_NS]) = 1

\* C18: a signal that the scan broadcasts or hands to open_trade is never
\* the signal of the most recent bar of the fetched sequence.
C18_ScanUsesClosedBarsOnly ==
    \A c \in Clients :
        ws_clients[c].sent # None =>
            ws_clients[c].sent.signal.time < ws_clients[c].sent.last_bar

\* C16: under any interleaving of the handlers that touch an instrument, an
\* Active trade is never overwritten or replaced by another open_trade: the
\* Active trade of an instrument changes only by being closed, and its
\* closing record is then the first of the instrument's history.
C16_ActiveNeverOverwritten ==
    [][ \A s \in Symbols :
          (active[s] # None /\ active'[s] # active[s]) =>
              /\ active'[s] = None
              /\ history'[s] = Prepended(history'[s][1], history[s])
              /\ RecordOf(history'[s][1], active[s]) ]_vars

----------------------------------------------------------------------------
(* SpecInd: ema, rsi, atr and supertrend of indicators.py called, in any   *)
(* order and at any time, on 5-minute bar sequences of 0 to                *)
(* 2 + MaxTail bars with a lookback length                                 *)

\* the lengths of the flat opening and the lookback lengths
IndOpenings == {0, 1, 2}
IndLengths  == {2, 10, 14}

IndInputs ==
    { [df |-> BarsOf(n, 10000000, t), length |-> k] :
        n \in IndOpenings, t \in Tails, k \in IndLengths }

InitInd ==
    /\ active  = [s \in Symbols |-> None]
    /\ akeys   = <<>>
    /\ history = [s \in Symbols |-> <<>>]
    /\ hkeys   = <<>>
    /\ now     = 0
    /\ \E inp \in IndInputs : last = Call("init", None, inp, Missing, None)
    /\ InitMain

\* the call fn of indicators.py returning ret, on the input chosen
IndCall(fn, ret) ==
    /\ last' = Call(fn, None, last.req, Missing, ret)
    /\ UNCHANGED <<active, akeys, history, hkeys, now>>

IndEma ==
    /\ IndCall("ema", Ema(Close(last.req.df), last.req.length))
    /\ UNCHANGED mainVars

IndRsi ==
    /\ IndCall("rsi", Rsi(Close(last.req.df), last.req.length))
    /\ UNCHANGED mainVars

IndAtr ==
    /\ IndCall("atr", Atr(High(last.req.df), Low(last.req.df),
                          Close(last.req.df), last.req.length))
    /\ UNCHANGED mainVars

\* supertrend with the default factor 3 (line 30)
IndSupertrend ==
    /\ IndCall("supertrend",
               Supertrend(High(last.req.df), Low(last.req.df),
                          Close(last.req.df), 3, last.req.length))
    /\ UNCHANGED mainVars

\* the wall clock between two calls
IndAdvance ==
    /\ now < MaxIndNow
    /\ Advance(now + 1)
    /\ UNCHANGED mainVars

NextInd == IndEma \/ IndRsi \/ IndAtr \/ IndSupertrend \/ IndAdvance

SpecInd == InitInd /\ [][NextInd]_vars

----------------------------------------------------------------------------
(* C21..C27: the indicators *)

\* the docstring of supertrend: -1 bullish, +1 bearish
DirName(d) ==
    IF d = Num(-1) THEN "Bullish" ELSE IF d = Num(1) THEN "Bearish"
    ELSE "other"

\* the accumulator of the fold after bar i, from the accumulator acc of bar
\* i - 1: the lower band is tightened first, then the upper band, then the
\* direction flips or stays
FoldStep(acc, i, close, raw_upper, raw_lower) ==
    LET lo == IF Gt(raw_lower[i], acc.lower) \/ Lt(close[i - 1], acc.lower)
              THEN raw_lower[i] ELSE acc.lower
        up == IF Lt(raw_upper[i], acc.upper) \/ Gt(close[i - 1], acc.upper)
              THEN raw_upper[i] ELSE acc.upper
    IN  [dir   |-> IF acc.dir = "Bearish" /\ Gt(close[i], up) THEN "Bullish"
                   ELSE IF acc.dir = "Bullish" /\ Lt(close[i], lo)
                   THEN "Bearish" ELSE acc.dir,
         lower |-> lo,
         upper |-> up]

\* the directions of bars i, i + 1, ... of the fold
RECURSIVE FoldFrom(_, _, _, _, _)
FoldFrom(acc, i, close, raw_upper, raw_lower) ==
    IF i > Len(close) THEN <<>>
    ELSE <<FoldStep(acc, i, close, raw_upper, raw_lower).dir>>
         \o FoldFrom(FoldStep(acc, i, close, raw_upper, raw_lower), i + 1,
                     close, raw_upper, raw_lower)

\* the fold over a sequence of at least one bar, seeded at bar 0
FoldDirections(close, raw_upper, raw_lower) ==
    <<"Bearish">>
    \o FoldFrom([dir |-> "Bearish", lower |-> raw_lower[1],
                 upper |-> raw_upper[1]], 2, close, raw_upper, raw_lower)

\* the raw bands of the input inp
InpRawUpper(inp) ==
    RawUpper(Hl2(High(inp.df), Low(inp.df)),
             Atr(High(inp.df), Low(inp.df), Close(inp.df), inp.length), 3)

InpRawLower(inp) ==
    RawLower(Hl2(High(inp.df), Low(inp.df)),
             Atr(High(inp.df), Low(inp.df), Close(inp.df), inp.length), 3)

\* C21: on every sequence of at least one bar the direction supertrend
\* returns is, bar by bar, the direction of the sequential fold that
\* carries (direction, active lower band, active upper band), seeded
\* Bearish with the raw bands at bar 0, and it is Bullish or Bearish at
\* every bar
C21_DirectionIsSequentialFold ==
    (last.op = "supertrend" /\ Len(last.req.df) >= 1) =>
        /\ \A i \in DOMAIN last.ret :
               DirName(last.ret[i]) \in {"Bullish", "Bearish"}
        /\ [i \in DOMAIN last.ret |-> DirName(last.ret[i])]
               = FoldDirections(Close(last.req.df), InpRawUpper(last.req),
                                InpRawLower(last.req))

\* supertrend returned a direction that went Bearish, Bullish, Bearish
C21_Witness ==
    /\ last.op = "supertrend"
    /\ Len(last.req.df) >= 3
    /\ \E i \in 2..(Len(last.req.df) - 1) :
           /\ DirName(last.ret[i - 1]) = "Bearish"
           /\ DirName(last.ret[i]) = "Bullish"
           /\ DirName(last.ret[i + 1]) = "Bearish"

\* the arrays upper, lower and st_dir of supertrend on the input inp
InpBands(inp) ==
    SupertrendBands(High(inp.df), Low(inp.df), Close(inp.df), 3,
                    Atr(High(inp.df), Low(inp.df), Close(inp.df),
                        inp.length))

\* the direction of row i is that of row i - 1
SameDir(rows, i) == rows[i].st_dir = rows[i - 1].st_dir

\* the stickiness of the rows of supertrend
StickyRows(rows, close) ==
    \A i \in 2..Len(rows) :
        /\ (SameDir(rows, i) /\ Geq(close[i - 1], rows[i - 1].lower))
               => Geq(rows[i].lower, rows[i - 1].lower)
        /\ (SameDir(rows, i) /\ Leq(close[i - 1], rows[i - 1].upper))
               => Leq(rows[i].upper, rows[i - 1].upper)

\* a row whose raw lower band is below the lower band of the row before
\* while the direction is unchanged and the close before was on or above it
RetainedLower(rows, close, raw_lower) ==
    \E i \in 2..Len(rows) :
        /\ SameDir(rows, i)
        /\ Geq(close[i - 1], rows[i - 1].lower)
        /\ Lt(raw_lower[i], rows[i - 1].lower)
        /\ rows[i].lower = rows[i - 1].lower

\* C22: at every bar i >= 1 of supertrend whose direction is that of bar
\* i - 1, the active lower band is not below the one of bar i - 1 if the
\* close of bar i - 1 was on or above it, and the active upper band is not
\* above the one of bar i - 1 if the close of bar i - 1 was on or below it
C22_BandsAreSticky ==
    (last.op = "supertrend" /\ Len(last.req.df) >= 2) =>
        StickyRows(InpBands(last.req), Close(last.req.df))

\* supertrend kept a lower band although the raw lower band had dropped
C22_Witness ==
    /\ last.op = "supertrend"
    /\ Len(last.req.df) >= 2
    /\ RetainedLower(InpBands(last.req), Close(last.req.df),
                     InpRawLower(last.req))

\* supertrend on the input inp
InpSupertrend(inp) ==
    Supertrend(High(inp.df), Low(inp.df), Close(inp.df), 3, inp.length)

HasBand(v) == "band" \in DOMAIN v /\ "st_dir" \in DOMAIN v

\* the band exposed for a row: the lower band on a bullish bar, the upper
\* band on a bearish bar
ActiveBand(row) ==
    IF DirName(row.st_dir) = "Bullish" THEN row.lower ELSE row.upper

\* C24: what supertrend returns holds, for every bar, the direction and
\* the active band, which is the active lower band on a Bullish bar and the
\* active upper band on a Bearish bar
C24_ReturnsActiveBand ==
    (last.op = "supertrend" /\ Len(last.req.df) >= 1) =>
        \A i \in DOMAIN last.ret :
            /\ HasBand(last.ret[i])
            /\ last.ret[i].st_dir = InpBands(last.req)[i].st_dir
            /\ last.ret[i].band = ActiveBand(InpBands(last.req)[i])

\* C25: on a sequence of fewer than 2 bars supertrend does not raise and
\* returns no defined direction for any bar
C25_ShortInputUndefined ==
    (last.op = "supertrend" /\ Len(last.req.df) < 2) =>
        /\ ~Raised(last.ret)
        /\ \A i \in DOMAIN last.ret : IsNaN(last.ret[i])

\* avg_loss of rsi (lines 10-14)
AvgLoss(series, length) == Ewm(NegClipUpper0(Diff(series)), 1, length)

\* the value at row i is the number k
IsNumber(series, i, k) == ~IsNaN(series[i]) /\ Cmp(series[i], Num(k)) = 0

\* C26: at every bar where the smoothed average loss is zero, rsi returns
\* exactly 100, a defined value
C26_RsiSaturates ==
    last.op = "rsi" =>
        \A i \in DOMAIN last.ret :
            IsNumber(AvgLoss(Close(last.req.df), last.req.length), i, 0)
                => IsNumber(last.ret, i, 100)

\* C27: ema, rsi and atr return a series as long as the input, and the
\* series of ema is undefined on its first length - 1 bars and defined on
\* every later bar
C27_LengthAndWarmUp ==
    /\ last.op \in {"ema", "rsi", "atr"} => Len(last.ret) = Len(last.req.df)
    /\ last.op = "ema" =>
           \A i \in DOMAIN last.ret :
               IsNaN(last.ret[i]) <=> i <= last.req.length - 1

----------------------------------------------------------------------------
(* SpecRefs: the calls of Spec, get_all_active, and a caller that writes   *)
(* to a record the last call handed to it                                  *)

\* {**t} without entry_time_dt and with elapsed_minutes (lines 177-179)
ActiveCopy(t, at) ==
    [ symbol                |-> t.symbol,
      timeframe             |-> t.timeframe,
      strategy              |-> t.strategy,
      side                  |-> t.side,
      entry_price           |-> t.entry_price,
      target_price          |-> t.target_price,
      stop_loss             |-> t.stop_loss,
      confidence            |-> t.confidence,
      entry_time            |-> t.entry_time,
      expected_time_minutes |-> t.expected_time_minutes,
      expected_bars         |-> t.expected_bars,
      rsi                   |-> t.rsi,
      atr                   |-> t.atr,
      status                |-> t.status,
      elapsed_minutes       |-> 10 * ElapsedMinutes(t.entry_time_dt, at) ]

\* TradeManager.get_all_active (lines 173-181)
GetAllActive ==
    Install(Manager, "get_all_active", None, None, Missing,
            [list |-> [i \in 1..Len(akeys) |->
                          ActiveCopy(active[akeys[i]], now)]])

RefGetAllActive ==
    /\ GetAllActive
    /\ UNCHANGED mainVars

\* the calls whose dict the caller holds is the dict the manager stores:
\* open_trade returns the trade it put in _active (lines 109-110),
\* _close_trade the event it put in _history (lines 257-261), and
\* get_history(symbol) a new list of the events of _history (line 186)
ReturnsStoredTrade == last.op = "open_trade" /\ last.ret # None

ReturnsStoredEvent ==
    /\ last.op \in {"check_exits", "force_close"}
    /\ last.ret # None

ReturnsStoredEvents ==
    /\ last.op = "get_history"
    /\ last.symbol # None
    /\ last.ret.list # <<>>

\* the calls that return copies (lines 167, 177)
ReturnsCopy ==
    \/ last.op = "get_active" /\ last.ret # None
    \/ last.op = "get_all_active" /\ last.ret.list # <<>>

\* the call recorded when the caller has written to the record
Mutated == Call("mutate", last.symbol, [of |-> last.op], Missing, None)

\* the caller executes record['stop_loss'] = 0.0 on a record of the last
\* call
RefMutate ==
    /\ \/ /\ ReturnsStoredTrade
          /\ active' = [active EXCEPT ![last.symbol].stop_loss = 0]
          /\ UNCHANGED history
       \/ /\ ReturnsStoredEvent
          /\ history' = [history EXCEPT ![last.symbol][1].stop_loss = 0]
          /\ UNCHANGED active
       \/ /\ ReturnsStoredEvents
          /\ \E k \in 1..Len(last.ret.list) :
                 history' = [history EXCEPT
                     ![last.symbol][Len(last.ret.list) + 1 - k].stop_loss = 0]
          /\ UNCHANGED active
       \/ /\ ReturnsCopy
          /\ UNCHANGED <<active, history>>
    /\ last' = Mutated
    /\ UNCHANGED <<akeys, hkeys, now>>
    /\ UNCHANGED mainVars

NextRefs ==
    \/ LifeOpen
    \/ LifeCheckExits
    \/ LifeForceClose
    \/ LifeGetActive
    \/ RefGetAllActive
    \/ LifeGetHistory
    \/ LifeGetHistoryAll
    \/ LifeAdvance
    \/ RefMutate

SpecRefs == Init /\ [][NextRefs]_vars

\* the records of what a call returned: the record itself, or the
\* elements of the list
RecordsOf(ret) ==
    IF "list" \in DOMAIN ret THEN {ret.list[i] : i \in 1..Len(ret.list)}
    ELSE {ret}

\* C28: no record returned by open_trade, check_exits, force_close,
\* get_active, get_all_active or get_history holds the internal datetime
\* object, and a caller that writes to such a record changes neither the
\* Active trades nor the histories of the manager
C28_NoInternalReference ==
    /\ [](last.op \in {"open_trade", "check_exits", "force_close",
                       "get_active", "get_all_active", "get_history"}
              => \A r \in RecordsOf(last.ret) :
                     "entry_time_dt" \notin DOMAIN r)
    /\ [][last'.op = "mutate" => (active' = active /\ history' = history)]_vars

----------------------------------------------------------------------------
(* SpecData: get_data of data_fetcher.py on every combination of what the  *)
(* four yfinance calls can answer, then strategy_pro_mtf on the DataFrame  *)
(* returned and open_trade with its last signal                            *)

\* the columns of a yfinance DataFrame; the model keeps the index and the
\* High, Low, Close and Volume cells of a row, NaN as Missing
Columns == {"Open", "High", "Low", "Close", "Volume"}

Frame(rows) == [columns |-> Columns, rows |-> rows]

\* 51 bars whose last two bars have the same timestamp, and 51 bars whose
\* last bar is stamped before the bar it follows
DuplicateBar == [FormingBar EXCEPT ![51].time = FormingBar[50].time]

NonMonotonicBar == [FormingBar EXCEPT ![51].time = FormingBar[49].time]

\* 51 rows of which the last has no Close
NaNRow == [FormingBar EXCEPT ![51].close = Missing]

\* what a call of yfinance can answer: an exception, an empty DataFrame,
\* one without a Close column, one with Adj Close in its place, 50 bars,
\* 51 rows of which one has a NaN, 51 bars, and the two malformed ones
YfResponses ==
    { [raises |-> "Exception"],
      Frame(<<>>),
      [columns |-> Columns \ {"Close"}, rows |-> FormingBar],
      [columns |-> (Columns \ {"Close"}) \cup {"Adj Close"},
       rows |-> ClosedBar],
      Frame(BarsOf(50, 10000000, <<>>)),
      Frame(NaNRow),
      Frame(FormingBar),
      Frame(DuplicateBar),
      Frame(NonMonotonicBar) }

\* df.dropna(subset=required) (line 70)
HasOhlc(row) == row.high # Missing /\ row.low # Missing /\ row.close # Missing

DropNa(rows) == SelectSeq(rows, HasOhlc)

\* the columns after the rename of lines 65-66
Renamed(columns) ==
    IF "Adj Close" \in columns /\ "Close" \notin columns
    THEN (columns \ {"Adj Close"}) \cup {"Close"} ELSE columns

\* _clean (lines 60-72)
Clean(raw) ==
    IF raw = None THEN None
    ELSE IF raw.rows = <<>> THEN None
    ELSE IF ~({"Open", "High", "Low", "Close"} \subseteq Renamed(raw.columns))
    THEN None
    ELSE DropNa(raw.rows)

\* a DataFrame that is returned as it is
UsableNonEmpty(df) == df # None /\ Len(df) > 0

\* df is not None and len(df) > 50 (lines 24, 28, 51)
Usable(df) == df # None /\ Len(df) > 50

\* the body of the try of _try_ticker and of _try_download (lines 36-38,
\* 47-50), None when it raises
Fetched(response) ==
    IF "raises" \in DOMAIN response THEN None ELSE Clean(response)

\* _try_ticker (lines 34-41)
TryTicker(response) == Fetched(response)

\* _try_download (lines 44-57) from attempt on: its result and the number
\* of yf.download calls made
RECURSIVE TryDownload(_, _)
TryDownload(responses, attempt) ==
    IF attempt > 3 THEN [result |-> None, calls |-> 3]
    ELSE IF Usable(Fetched(responses[attempt]))
    THEN [result |-> Fetched(responses[attempt]), calls |-> attempt]
    ELSE TryDownload(responses, attempt + 1)

\* lines 27-31 of get_data
AfterDownload(r) ==
    IF Usable(r.result)
    THEN [df |-> r.result, ticker_calls |-> 1, download_calls |-> r.calls]
    ELSE [raises |-> "ValueError", ticker_calls |-> 1,
          download_calls |-> r.calls]

\* lines 23-31 of get_data
AfterTicker(df, responses) ==
    IF Usable(df)
    THEN [df |-> df, ticker_calls |-> 1, download_calls |-> 0]
    ELSE AfterDownload(TryDownload(responses, 1))

\* get_data (lines 19-31): the DataFrame returned or the error raised, with
\* the calls of yfinance made
GetData(ticker, downloads) == AfterTicker(TryTicker(ticker), downloads)

\* the DataFrames get_data can return
ReturnedFrames ==
    { Fetched(r) : r \in { q \in YfResponses : Usable(Fetched(q)) } }

\* strategy_pro_mtf on the DataFrames get_data can return
DataSignals == [df \in ReturnedFrames |-> StrategyProMtf(df)] @@ <<>>

InitData == InitAt(At(0, 300))

\* the answers of yfinance for one call of get_data
DataGet ==
    /\ last.op = "init"
    /\ \E ticker \in YfResponses, downloads \in [1..3 -> YfResponses] :
           last' = Call("get_data", RELIANCE_NS,
                        [ticker |-> ticker, downloads |-> downloads],
                        Missing, GetData(ticker, downloads))
    /\ UNCHANGED <<active, akeys, history, hkeys, now>>
    /\ UNCHANGED mainVars

\* STRATEGIES['pro_mtf']['fn'](df, ts) on the DataFrame returned
DataStrategy ==
    /\ last.op = "get_data"
    /\ "df" \in DOMAIN last.ret
    /\ last' = Call("strategy", "pro_mtf", last.ret.df, Missing,
                    DataSignals[last.ret.df])
    /\ UNCHANGED <<active, akeys, history, hkeys, now>>
    /\ UNCHANGED mainVars

\* open_trade with the last signal of the list
DataOpen ==
    /\ last.op = "strategy"
    /\ last.ret # <<>>
    /\ OpenTrade(last.ret[Len(last.ret)], RELIANCE_NS, "pro_mtf", "5m")
    /\ UNCHANGED mainVars

NextData == DataGet \/ DataStrategy \/ DataOpen

SpecData == InitData /\ [][NextData]_vars

\* the index of df is strictly increasing
WellFormed(df) == \A i \in 2..Len(df) : df[i - 1].time < df[i].time

\* C29: get_data returns no DataFrame whose timestamps repeat or go back,
\* no strategy is evaluated on one and no trade is opened from one
C29_MalformedBarsRejected ==
    /\ []((last.op = "get_data" /\ "df" \in DOMAIN last.ret)
              => WellFormed(last.ret.df))
    /\ [](last.op = "strategy" => WellFormed(last.req))
    /\ [][(last.op = "strategy" /\ last'.op = "open_trade")
              => WellFormed(last.req)]_vars

\* C30: get_data returns a DataFrame of more than 50 bars or raises
\* ValueError, after one call of Ticker.history and at most three calls of
\* yf.download
C30_UsableDataOrError ==
    last.op = "get_data" =>
        /\ \/ "df" \in DOMAIN last.ret /\ Len(last.ret.df) > 50
           \/ "raises" \in DOMAIN last.ret /\ last.ret.raises = "ValueError"
        /\ last.ret.ticker_calls = 1
        /\ last.ret.download_calls \in 0..3

\* get_data raised after Ticker.history and three downloads of which one
\* answered 50 bars and one 51 rows with a NaN
C30_Witness ==
    /\ last.op = "get_data"
    /\ "raises" \in DOMAIN last.ret
    /\ last.ret.download_calls = 3
    /\ last.req.ticker = Frame(NaNRow)
    /\ \E k \in 1..3 :
           last.req.downloads[k] = Frame(BarsOf(50, 10000000, <<>>))

----------------------------------------------------------------------------
(* SpecTime: one trade on RELIANCE.NS opened with every sampled            *)
(* target_bars, bars and interval, then ticks at the entry price while     *)
(* the clock advances                                                      *)

\* target_bars: absent, 0, 1.25 and 1.44 bars; bars: absent, 0 and 3 bars
TimeTargetBars == {Missing, 0, 125, 144}
TimeBars       == {Missing, 0, 300}

\* a known intraday interval, the daily one, and one not in the table
TimeIntervals == {"1m", "1d", "3m"}

\* BUY at 100 with stop 98 and target 104
TimeSignal(target_bars, bars) ==
    Signal("BUY", 10000000, 9800000, 10400000, 50000, 200000, target_bars,
           bars)

\* minutes after Monday 2024-03-04 00:00 UTC at which the clock is read
TimeInstants == {1, 2, 3, 15, 25, 26}

TimeOpen ==
    /\ \E tb \in TimeTargetBars, b \in TimeBars, iv \in TimeIntervals :
           /\ NoTradeYet
           /\ OpenTrade(TimeSignal(tb, b), RELIANCE_NS, "pro_mtf", iv)
    /\ UNCHANGED mainVars

TimeCheckExits ==
    /\ CheckExits(10000000, RELIANCE_NS)
    /\ UNCHANGED mainVars

TimeGetActive ==
    /\ GetActive(RELIANCE_NS)
    /\ UNCHANGED mainVars

TimeAdvance ==
    /\ \E t \in TimeInstants :
           /\ akeys # <<>> \/ NoTradeYet
           /\ Advance(t)
    /\ UNCHANGED mainVars

NextTime == TimeOpen \/ TimeCheckExits \/ TimeGetActive \/ TimeAdvance

SpecTime == InitAt(0) /\ [][NextTime]_vars

----------------------------------------------------------------------------
(* C31..C40 *)

\* the target bars of a signal in 0.01 bars: target_bars, else bars, else 5
TargetBars(signal) ==
    IF signal.target_bars \notin {Missing, 0} THEN signal.target_bars
    ELSE IF signal.bars \notin {Missing, 0} THEN signal.bars
    ELSE 500

\* target bars x minutes per bar, in 0.01 minutes
ExpectedExit(req) == TargetBars(req.signal) * IntervalMinutes(req.interval)

\* the Active trade of an instrument keeps its expected_time_minutes, and
\* a tick at a price between stop and target closes it with 'Time Exit'
\* exactly when the minutes elapsed have reached it
ThresholdIsStored ==
    /\ \A s \in Symbols :
           (active[s] # None /\ active'[s] # None)
               => active'[s].expected_time_minutes
                      = active[s].expected_time_minutes
    /\ (IsCall("check_exits") /\ active[last'.symbol] # None)
           => ((last'.ret # None /\ last'.ret.exit_reason = "Time Exit")
                  <=> 10 * (now - active[last'.symbol].entry_time_dt)
                          >= active[last'.symbol].expected_time_minutes)

\* C31 as stated: every trade opened has expected_time_minutes equal to
\* target bars x minutes per bar of its timeframe, and that value is the
\* Time Exit threshold for as long as the trade is Active
C31_ExactExpectedTime ==
    [][ /\ (IsCall("open_trade") /\ last'.ret # None)
            => 10 * last'.ret.expected_time_minutes = ExpectedExit(last'.req)
        /\ ThresholdIsStored ]_vars

\* C31 amended: every trade opened has expected_time_minutes equal to
\* target bars x minutes per bar of its timeframe rounded to 1 decimal,
\* target bars being target_bars, else bars, else 5, a value of 0 counting
\* as absent, and minutes per bar 5 for an interval not in the table; that
\* value is the Time Exit threshold for as long as the trade is Active
C31_RoundedExpectedTime ==
    [][ /\ (IsCall("open_trade") /\ last'.ret # None)
            => /\ 2 * Abs(10 * last'.ret.expected_time_minutes
                            - ExpectedExit(last'.req)) <= 10
               /\ active'[last'.symbol].expected_time_minutes
                      = last'.ret.expected_time_minutes
        /\ ThresholdIsStored ]_vars

\* a trade opened with 1.25 target bars on 1-minute bars, stored with 1.2
\* expected minutes, was closed with 'Time Exit' 2 minutes after its entry
C31_Witness ==
    /\ last.op = "check_exits"
    /\ last.ret # None
    /\ last.ret.exit_reason = "Time Exit"
    /\ last.ret.timeframe = "1m"
    /\ last.ret.duration_minutes = 20

----------------------------------------------------------------------------
(* SpecCross: crossover and crossunder of indicators.py on every pair of   *)
(* series of up to MaxCross values out of 1, 2, 3                          *)

CrossValues == {1, 2, 3}

CrossInputs ==
    UNION { { [s1 |-> a, s2 |-> b] :
                a \in [1..n -> CrossValues], b \in [1..n -> CrossValues] } :
            n \in 0..MaxCross }

\* the pandas Series of the numbers of xs
NumSeries(xs) == [i \in DOMAIN xs |-> Num(xs[i])]

InitCross ==
    /\ active  = [s \in Symbols |-> None]
    /\ akeys   = <<>>
    /\ history = [s \in Symbols |-> <<>>]
    /\ hkeys   = <<>>
    /\ now     = 0
    /\ \E inp \in CrossInputs : last = Call("init", None, inp, Missing, None)
    /\ InitMain

CrossCrossover ==
    /\ last' = Call("crossover", None, last.req, Missing,
                    Crossover(NumSeries(last.req.s1), NumSeries(last.req.s2)))
    /\ UNCHANGED <<active, akeys, history, hkeys, now>>
    /\ UNCHANGED mainVars

CrossCrossunder ==
    /\ last' = Call("crossunder", None, last.req, Missing,
                    Crossunder(NumSeries(last.req.s1), NumSeries(last.req.s2)))
    /\ UNCHANGED <<active, akeys, history, hkeys, now>>
    /\ UNCHANGED mainVars

NextCross == CrossCrossover \/ CrossCrossunder

SpecCross == InitCross /\ [][NextCross]_vars

\* no two consecutive rows of the boolean series are true
NeverTwice(series) ==
    \A i \in 2..Len(series) : ~(series[i - 1] /\ series[i])

\* C32: crossover(A, B) is true at bar i exactly when A[i-1] <= B[i-1] and
\* A[i] > B[i], crossunder(A, B) exactly when A[i-1] >= B[i-1] and
\* A[i] < B[i]; both are false at bar 0 and neither is true on two
\* consecutive bars
C32_CrossIsTransition ==
    /\ last.op = "crossover" =>
           /\ \A i \in DOMAIN last.ret :
                  last.ret[i] <=> /\ i > 1
                                  /\ last.req.s1[i - 1] <= last.req.s2[i - 1]
                                  /\ last.req.s1[i] > last.req.s2[i]
           /\ NeverTwice(last.ret)
    /\ last.op = "crossunder" =>
           /\ \A i \in DOMAIN last.ret :
                  last.ret[i] <=> /\ i > 1
                                  /\ last.req.s1[i - 1] >= last.req.s2[i - 1]
                                  /\ last.req.s1[i] < last.req.s2[i]
           /\ NeverTwice(last.ret)

\* crossunder was true at bar 1 of series that were equal at bar 0, and
\* false at bar 2 although A was below B there too
C32_Witness ==
    /\ last.op = "crossunder"
    /\ Len(last.ret) = 3
    /\ last.req.s1[1] = last.req.s2[1]
    /\ last.ret[2]
    /\ last.req.s1[3] < last.req.s2[3]
    /\ ~last.ret[3]

\* the row of the 5-minute bar sequence df a signal was built for
SignalBar(df, signal) == df[signal.time \div 5]

\* stop and target of a signal at one and two ATR from the entry, to the
\* fourth decimal, and strictly on opposite sides of it
SizedByAtr(signal) ==
    IF signal.type = "BUY"
    THEN /\ Abs((signal.price - signal.sl) - signal.atr) <= 10
         /\ Abs((signal.tp - signal.price) - 2 * signal.atr) <= 20
         /\ signal.sl < signal.price /\ signal.price < signal.tp
    ELSE /\ Abs((signal.sl - signal.price) - signal.atr) <= 10
         /\ Abs((signal.price - signal.tp) - 2 * signal.atr) <= 20
         /\ signal.tp < signal.price /\ signal.price < signal.sl

\* C33: every signal a strategy emits has the close of its bar as entry,
\* its stop one ATR and its target two ATR from the entry, on opposite
\* sides of it: below and above for a BUY, above and below for a SELL; a
\* trade opened from it has neither its Target nor its Stop condition
\* holding at the entry price
C33_StopAndTargetAroundEntry ==
    /\ last.op \in {"strategy", "strategy again"} =>
           \A i \in 1..Len(last.ret) :
               /\ last.ret[i].price = SignalBar(last.req, last.ret[i]).close
               /\ SizedByAtr(last.ret[i])
    /\ (last.op = "open_trade" /\ last.ret # None) =>
           ExitReasonNoTime(last.ret, last.ret.entry_price, last.symbol, now)
               = NoReason

----------------------------------------------------------------------------
(* Racing closes: the event-loop thread of ws_endpoint runs check_exits and
   eod_sweep, a threadpool thread runs api_close_trade; TradeManager has no
   lock, so a thread may be preempted between two of its statements, and
   the price lookups release the interpreter lock *)

\* the KeyError of self._active[sym] for a key that is not in the dict
KeyError == [raises |-> "KeyError"]

CloseSymbols == {RELIANCE_NS}

ClosePrices == {10450000, 10000000}

\* what the price lookup of eod_sweep yields (lines 205-208)
CloseQuotes == {Missing, 10100000}

\* the keys of the sweep from the first one whose End-of-Day test holds
\* (lines 202-204)
RECURSIVE FromEod(_, _)
FromEod(keys, t) ==
    IF keys = <<>> THEN <<>>
    ELSE IF CheckEod(Head(keys), t) # NoReason THEN keys
    ELSE FromEod(Tail(keys), t)

\* the loop of eod_sweep goes on over keys in the thread w, the manager
\* being in the state st: to the price lookup of the next key whose
\* End-of-Day test holds, or to the return of the events (line 214)
SweepGoOn(w, st, keys, events) ==
    LET ks == FromEod(keys, now)
    IN  IF ks = <<>>
        THEN /\ Install(st, "eod_sweep", None, None, Missing,
                        [events |-> events])
             /\ pool' = [pool EXCEPT ![w] = Idle]
        ELSE /\ active'  = st.active
             /\ akeys'   = st.akeys
             /\ history' = st.history
             /\ hkeys'   = st.hkeys
             /\ UNCHANGED <<now, last>>
             /\ pool' = [pool EXCEPT
                           ![w] = [pc     |-> "lookup",
                                   symbol |-> Head(ks),
                                   req    |-> [keys   |-> Tail(ks),
                                               events |-> events],
                                   trade  |-> None]]

\* the scan or a chart-data request opens a trade for an instrument
\* without one (main.py lines 186-187, 365-366)
CloseOpen ==
    /\ \E s \in CloseSymbols :
           /\ active[s] = None
           /\ opened[s] < MaxTrades
           /\ OpenTrade(BuySignal, s, "pro_mtf", "1m")
           /\ opened' = [opened EXCEPT ![s] = @ + 1]
    /\ UNCHANGED <<ws_clients, last_signal_key, signal_history, pool,
                   bar_state>>

\* check_exits on the event-loop thread reads the Active trade (line 118)
CloseTickRead ==
    /\ pool[1].pc = "idle"
    /\ \E s \in CloseSymbols, price \in ClosePrices :
           IF active[s] = None
           THEN /\ CheckExits(price, s)
                /\ UNCHANGED pool
           ELSE /\ pool' = [pool EXCEPT
                              ![1] = [pc     |-> "exits",
                                      symbol |-> s,
                                      req    |-> [price |-> price],
                                      trade  |-> active[s]]]
                /\ UNCHANGED tmVars
    /\ UNCHANGED <<ws_clients, last_signal_key, signal_history, opened,
                   bar_state>>

\* check_exits goes on with the trade it read: the exit tests and
\* _close_trade (lines 119-153, 218-261)
CloseTickExit ==
    LET p      == pool[1]
        reason == ExitReason(p.trade, p.req.price, p.symbol, now)
        st     == CloseTrade(Manager, p.symbol, p.req.price, reason, now)
    IN  /\ p.pc = "exits"
        /\ IF reason # NoReason
           THEN Install(st, "check_exits", p.symbol, None, p.req.price, st.ret)
           ELSE Install(Manager, "check_exits", p.symbol, None, p.req.price,
                        None)
        /\ pool' = [pool EXCEPT ![1] = Idle]
        /\ UNCHANGED <<ws_clients, last_signal_key, signal_history, opened,
                       bar_state>>

\* eod_sweep on the event-loop thread lists the keys and goes to the first
\* price lookup (lines 200-205)
CloseSweepBegin ==
    /\ pool[1].pc = "idle"
    /\ SweepGoOn(1, Manager, akeys, <<>>)
    /\ UNCHANGED <<ws_clients, last_signal_key, signal_history, opened,
                   bar_state>>

\* eod_sweep after the price lookup for sym: the price, which is the entry
\* price of self._active[sym] when the lookup gave none or failed, then
\* _close_trade and the rest of the loop (lines 206-213)
CloseSweepClose ==
    LET p == pool[1]
    IN  /\ p.pc = "lookup"
        /\ \E quote \in CloseQuotes :
             IF ~Truthy(quote) /\ active[p.symbol] = None
             THEN /\ Install(Manager, "eod_sweep", p.symbol, None, Missing,
                             KeyError)
                  /\ pool' = [pool EXCEPT ![1] = Idle]
             ELSE LET price == IF Truthy(quote) THEN quote
                               ELSE active[p.symbol].entry_price
                      st    == CloseTrade(Manager, p.symbol, price,
                                          "EOD Exit", now)
                  IN  SweepGoOn(1, st, p.req.keys,
                                IF st.ret # [empty |-> TRUE]
                                THEN Append(p.req.events, st.ret)
                                ELSE p.req.events)
        /\ UNCHANGED <<ws_clients, last_signal_key, signal_history, opened,
                       bar_state>>

\* api_close_trade on a threadpool thread: get_active, 404 without an
\* Active trade, the entry price when the request has no price (main.py
\* lines 128-132)
CloseApiGet ==
    /\ pool[2].pc = "idle"
    /\ \E s \in CloseSymbols, price \in {Missing, 10000000} :
           IF active[s] = None
           THEN /\ GetActive(s)
                /\ UNCHANGED pool
           ELSE /\ pool' = [pool EXCEPT
                              ![2] = [pc     |-> "force",
                                      symbol |-> s,
                                      req    |-> [price |->
                                                    IF price = Missing
                                                    THEN active[s].entry_price
                                                    ELSE price],
                                      trade  |-> None]]
                /\ UNCHANGED tmVars
    /\ UNCHANGED <<ws_clients, last_signal_key, signal_history, opened,
                   bar_state>>

\* force_close tests that the symbol has an Active trade (lines 157-159)
CloseApiTest ==
    LET p == pool[2]
    IN  /\ p.pc = "force"
        /\ IF active[p.symbol] = None
           THEN /\ ForceClose(p.symbol, p.req.price, "Manual Close")
                /\ pool' = [pool EXCEPT ![2] = Idle]
           ELSE /\ pool' = [pool EXCEPT ![2].pc = "pop"]
                /\ UNCHANGED tmVars
        /\ UNCHANGED <<ws_clients, last_signal_key, signal_history, opened,
                       bar_state>>

\* force_close goes on with _close_trade (lines 160, 218-261)
CloseApiPop ==
    LET p  == pool[2]
        st == CloseTrade(Manager, p.symbol, p.req.price, "Manual Close", now)
    IN  /\ p.pc = "pop"
        /\ Install(st, "force_close", p.symbol, [reason |-> "Manual Close"],
                   p.req.price, st.ret)
        /\ pool' = [pool EXCEPT ![2] = Idle]
        /\ UNCHANGED <<ws_clients, last_signal_key, signal_history, opened,
                       bar_state>>

\* the clock reaches the End-of-Day cutoff of NSE
CloseAdvance ==
    /\ Advance(At(4, 590))
    /\ UNCHANGED mainVars

NextClose ==
    \/ CloseOpen
    \/ CloseTickRead
    \/ CloseTickExit
    \/ CloseSweepBegin
    \/ CloseSweepClose
    \/ CloseApiGet
    \/ CloseApiTest
    \/ CloseApiPop
    \/ CloseAdvance

SpecClose == Init /\ [][NextClose]_vars

\* the trades of an instrument on record: its exit events and its Active
\* trade
Recorded(s) == Len(history[s]) + (IF active[s] # None THEN 1 ELSE 0)

\* a thread is about to go on with a close it began while the trade was
\* Active, and another close has taken the trade since
LosesRace(w) ==
    /\ pool[w].pc \in {"exits", "lookup", "pop"}
    /\ pool'[w].pc = "idle"
    /\ active[pool[w].symbol] = None

----------------------------------------------------------------------------
(* Counting opens: calls of the manager one after the other, the
   successful opens of each instrument counted in opened *)

\* open_trade; a call that returns a trade is a successful open
CountOpen ==
    /\ \E r \in LifeRequests, s \in LifeSymbols :
           /\ opened[RELIANCE_NS] + opened[AAPL] < MaxTrades
           /\ OpenTrade(r.signal, s, r.strategy, r.interval)
           /\ opened' = [opened EXCEPT
                           ![s] = IF last'.ret # None THEN @ + 1 ELSE @]
    /\ UNCHANGED <<ws_clients, last_signal_key, signal_history, pool,
                   bar_state>>

CountCheckExits ==
    /\ \E p \in LifePrices, s \in LifeSymbols : CheckExits(p, s)
    /\ UNCHANGED mainVars

CountForceClose ==
    /\ \E s \in LifeSymbols : ForceClose(s, 10000000, "Manual Close")
    /\ UNCHANGED mainVars

CountEodSweep ==
    /\ \E q \in Quotes({Missing, 10100000}) : EodSweep(q)
    /\ UNCHANGED mainVars

CountAdvance ==
    /\ \E t \in LifeTimes : Advance(t)
    /\ UNCHANGED mainVars

NextCount ==
    \/ CountOpen
    \/ CountCheckExits
    \/ CountForceClose
    \/ CountEodSweep
    \/ CountAdvance

SpecCount == Init /\ [][NextCount]_vars

\* the step opens a trade for s only when s has none, and closes one only
\* when s has one, with one more exit event
Alternates(s) ==
    /\ opened'[s] # opened[s] =>
           /\ active[s] = None
           /\ active'[s] # None
           /\ history'[s] = history[s]
    /\ history'[s] # history[s] =>
           /\ active[s] # None
           /\ active'[s] = None
           /\ Len(history'[s]) = Len(history[s]) + 1
           /\ opened'[s] = opened[s]

\* C35: after any sequence of open_trade, check_exits, force_close and
\* eod_sweep calls every instrument has as many successful opens as exit
\* events, plus one when it has an Active trade, and its opens and closes
\* alternate
C35_TradesConserved ==
    /\ [](\A s \in LifeSymbols : opened[s] = Recorded(s))
    /\ [][\A s \in LifeSymbols : Alternates(s)]_vars

\* an instrument with a second trade open after its first was closed
C35_Witness ==
    \E s \in LifeSymbols :
        opened[s] = 2 /\ Len(history[s]) = 1 /\ active[s] # None

\* C36: open_trade, check_exits and force_close applied to an instrument
\* never change the Active trade or the history of any other instrument
C36_InstrumentsIsolated ==
    [][\A op \in {"open_trade", "check_exits", "force_close"} :
           IsCall(op) =>
               \A b \in Symbols \ {last'.symbol} :
                   /\ active'[b] = active[b]
                   /\ history'[b] = history[b]]_vars

\* check_exits or force_close has closed the trade of one instrument
\* while another instrument has an Active trade
C36_Witness ==
    /\ last.op \in {"check_exits", "force_close"}
    /\ last.ret \notin {None, [empty |-> TRUE]}
    /\ \E b \in Symbols \ {last.symbol} : active[b] # None

----------------------------------------------------------------------------
(* Chart-data requests after a close: the handlers one after the other *)

\* api_chartdata (main.py lines 146-201): the latest signal of the
\* strategy on the bars of the request opens a trade when the symbol has
\* no Active trade (lines 179-187); the response carries get_active
ReopenChart ==
    /\ \E r \in ChartRequests :
         LET latest == ChartLatest[r]
         IN  IF latest # None /\ active[r.symbol] = None
             THEN /\ opened[r.symbol] < MaxTrades
                  /\ OpenTrade(latest, r.symbol, r.strategy, r.interval)
                  /\ opened' = [opened EXCEPT ![r.symbol] = @ + 1]
             ELSE /\ GetActive(r.symbol)
                  /\ UNCHANGED opened
    /\ UNCHANGED <<ws_clients, last_signal_key, signal_history, pool,
                   bar_state>>

\* the price tick of a session subscribed to the symbol (lines 261-333)
ReopenTick ==
    /\ \E s \in RaceSymbols, price \in TickPrices : CheckExits(price, s)
    /\ UNCHANGED mainVars

\* api_close_trade (lines 118-134)
ReopenClose ==
    /\ \E s \in RaceSymbols, price \in TickPrices :
         IF active[s] = None THEN GetActive(s)
         ELSE ForceClose(s, price, "Manual Close")
    /\ UNCHANGED mainVars

\* the clock moves on by five seconds, the sleep of the session loop
ReopenAdvance ==
    /\ \E t \in LoopTimes : Advance(t)
    /\ UNCHANGED mainVars

NextReopen ==
    \/ ReopenChart
    \/ ReopenTick
    \/ ReopenClose
    \/ ReopenAdvance

SpecReopen == InitRace /\ [][NextReopen]_vars

\* the signals (instrument, signal bar time) the chart-data requests for
\* the symbol s yield
SignalKeys(s) ==
    { ChartLatest[r].time :
        r \in {q \in ChartRequests :
                 q.symbol = s /\ ChartLatest[q] # None} }

\* C37: a signal (instrument, signal bar time) opens at most one trade:
\* the trades opened for an instrument never outnumber the signals the
\* requests for it have yielded, whatever was closed in between
C37_OneTradePerSignal ==
    \A s \in RaceSymbols : opened[s] <= Cardinality(SignalKeys(s))

----------------------------------------------------------------------------
(* Signal scans while the last bar forms: the session loop of SpecLoop with
   the bars get_data returns while the bar after the signal bar moves *)

\* the bars of ClosedBar with the forming bar up at 100.1
SpikeBar ==
    BarsOf(50, 10000000,
           << [high |-> 10000000, low |-> 9990000, close |-> 9990000,
               volume |-> 20],
              [high |-> 10010000, low |-> 9990000, close |-> 10010000,
               volume |-> 10] >>)

\* what get_data(s, "5m", "2d") returns from one scan to the next
FormingData == {ClosedBar, SpikeBar}

\* STRATEGIES['pro_mtf']['fn'](df, ts_fn) and the signal main.py makes of
\* its last element, for the DataFrames of FormingData
FormingSignal ==
    [df \in FormingData |-> LatestOf(StrategyProMtf(df), df)] @@ <<>>

\* one instrument of the signal scan (lines 336-366)
FormingScanItem ==
    \E c \in Clients :
        /\ ws_clients[c].pc = "scan"
        /\ Len(signal_history) < MaxSignals
        /\ UNCHANGED <<pool, bar_state>>
        /\ \/ /\ Session(c, ScanNext(ws_clients[c]))
              /\ UNCHANGED <<tmVars, last_signal_key, signal_history, opened>>
           \/ /\ IsSymbolTradeable(WatchList[ws_clients[c].i],
                                    GetOpenMarkets(now))
              /\ \E df \in FormingData :
                   ScanFound(c, WatchList[ws_clients[c].i],
                             ScanNext(ws_clients[c]), FormingSignal[df],
                             df[Len(df)].time)

NextForming ==
    \/ LoopConnect
    \/ LoopSubscribe
    \/ LoopTick
    \/ FormingScanItem
    \/ LoopStatus
    \/ LoopSleep
    \/ LoopTeardown
    \/ LoopAdvance

SpecForming == InitLoop /\ [][NextForming]_vars

\* C38: across any sequence of signal scans a signal (instrument, signal
\* bar time) is added to signal_history at most once: no two entries of
\* signal_history have the same instrument and signal time
C38_SignalRecordedOnce ==
    \A i, j \in 1..Len(signal_history) :
        (/\ signal_history[i].symbol = signal_history[j].symbol
         /\ signal_history[i].signal.time = signal_history[j].signal.time)
            => i = j

\* C39: a trade is never opened for an instrument while the End-of-Day
\* condition of the instrument holds, so a trade closed with 'EOD Exit'
\* was opened before the cutoff
C39_NoOpenAtEndOfDay ==
    [][\A s \in RaceSymbols :
           /\ (active[s] = None /\ active'[s] # None) =>
                  CheckEod(s, now') = NoReason
           /\ (/\ active[s] # None
               /\ active'[s] = None
               /\ history'[s][1].exit_reason = "EOD Exit") =>
                  CheckEod(s, active[s].entry_time_dt) = NoReason]_vars

----------------------------------------------------------------------------
(* Live bars: the price tick of a session aggregates the price into the
   bar of its symbol and interval *)

\* int(datetime.now(timezone.utc).timestamp()) at the instant t of the
\* clock, which counts minutes from Monday 2024-03-04 00:00 UTC
Unix(t) == 1709510400 + 60 * t

\* _floor_bar(unix_ts, interval_min) (lines 31-32)
FloorBar(unix_ts, interval_min) ==
    (unix_ts \div (interval_min * 60)) * (interval_min * 60)

\* the prices of the ticks
BarPrices == {9990000, 10000000}

\* _bar_state[state_key] after a tick at price in the bar bar_time, from
\* the state prev_state of the key (lines 287-298)
Aggregate(prev_state, bar_time, price) ==
    IF prev_state = None \/ prev_state.time # bar_time
    THEN [time  |-> bar_time,
          open  |-> IF prev_state # None THEN prev_state.close ELSE price,
          high  |-> price,
          low   |-> price,
          close |-> price]
    ELSE [prev_state EXCEPT !.high  = Max(@, price),
                            !.low   = Min(@, price),
                            !.close = price]

\* the price tick of a session on the symbol and interval of the key k
\* (lines 266-303): the bar, then check_exits; for the intervals of
\* BarIntervals _INTERVAL_MINUTES of main.py (lines 25-28) is that of
\* trade_manager.py
BarTick ==
    /\ \E k \in BarKeys, price \in BarPrices :
           /\ IsSymbolTradeable(k.sym, GetOpenMarkets(now))
           /\ bar_state' =
                  [bar_state EXCEPT
                     ![k] = Aggregate(@, FloorBar(Unix(now),
                                                  IntervalMinutes(k.iv)),
                                      price)]
           /\ CheckExits(price, k.sym)
    /\ UNCHANGED <<ws_clients, last_signal_key, signal_history, opened, pool>>

\* the clock moves on by a minute
BarAdvance ==
    /\ now < At(0, 300) + MaxBarMinutes
    /\ Advance(now + 1)
    /\ UNCHANGED mainVars

NextBars ==
    \/ BarTick
    \/ BarAdvance

SpecBars == InitLoop /\ [][NextBars]_vars

\* a valid OHLC bar
ValidOhlc(bar) ==
    /\ bar.low <= bar.open /\ bar.open <= bar.high
    /\ bar.low <= bar.close /\ bar.close <= bar.high

\* C40: after any sequence of price ticks every bar of the bar state is a
\* valid OHLC bar, low <= open <= high and low <= close <= high, its time
\* is the tick time floored to a multiple of the interval, and the bar
\* time of a key never decreases
C40_LiveBarsValid ==
    /\ [](\A k \in BarKeys : bar_state[k] # None => ValidOhlc(bar_state[k]))
    /\ [][\A k \in BarKeys :
              bar_state'[k] # bar_state[k] =>
                  /\ bar_state'[k].time % (IntervalMinutes(k.iv) * 60) = 0
                  /\ bar_state'[k].time <= Unix(now')
                  /\ Unix(now') < bar_state'[k].time
                                      + IntervalMinutes(k.iv) * 60
                  /\ bar_state[k] # None =>
                         bar_state[k].time <= bar_state'[k].time]_vars
====
